---- MODULE Spec2Model ----
(***************************************************************************)
(* The interaction state machine of app/source/final.tsx: the Scene        *)
(* component, its two strips (ResponsiveImageStrip as the front layer,     *)
(* ResponsiveTextStrip as the back layer) and the shared handleMediaFocus. *)
(*                                                                         *)
(* Granularity: one action per browser event, timer callback or rendered   *)
(* frame.  An action runs every listener of the event and then the React   *)
(* commit the event causes (the effects whose dependencies changed), so a   *)
(* state of the model is a state between two events, with every closure    *)
(* that is re-created on render reading the current React state.           *)
(*                                                                         *)
(* Units: angles are kept in hundredths of a radian (one pointer pixel is  *)
(* 0.01 rad, final.tsx:1008), camera coordinates in Unit-ths (one wheel    *)
(* tick is 0.1, final.tsx:1088), time in milliseconds.                     *)
(***************************************************************************)
EXTENDS Integers, FiniteSets, Sequences, TLC

(* ------------------------------ bounds --------------------------------- *)
\* Items 0..MaxHitItem of each layer are the ones the pointer is put on.
MaxHitItem == 1
\* Pointer-moves are offered while the drag distance accumulated along x stays
\* <= MaxDrag and the one accumulated along y stays <= MaxDragY.
MaxDrag == 15
MaxDragY == 1
\* Pointer-moves are offered while the scene's and the items' angles stay within
\* -MaxRot..MaxRot (hundredths of a radian), within -MaxGestureRot..MaxGestureRot
\* where the pointer moves a pixel at a time.
MaxRot == 6
MaxGestureRot == 1
\* Where the pointer moves to and fro along either axis, pointer-moves are offered
\* while each accumulated drag distance stays <= MaxRotateDrag.
MaxRotateDrag == 6
\* Where one long drag turns an item, pointer-moves are offered while each
\* accumulated drag distance stays <= MaxAccumulate px (7 rad, beyond a full turn).
MaxAccumulate == 700
\* The time since the last pointer-down is kept exactly up to MaxElapsed ms.
MaxElapsed == 201
\* Wheel events are offered while camera z stays within MaxWheel wheel ticks of a zoom
\* preset.
MaxWheel == 1
MaxHover == 4
MaxItems == 3
MaxPointerDrag == 8
\* In part_001's Scene, pointer-moves are offered while the scene's and the cube's
\* angles stay within -MaxTurn..MaxTurn, and a pointer-up while at most MaxPending
\* timeouts are pending after it.
MaxTurn == 2
MaxPending == 2
\* P5Sketch is mounted up to MaxMounts times, one component after the other.
MaxMounts == 2

(* ------------------------- program constants --------------------------- *)
N == 5
ClickMs == 200
CooldownMs == 300
StripDelayMs == 1000
RotThresholdDesktop == 5
RotThresholdMobile == 2
ClickThresholdDesktop == 10
ClickThresholdMobile == 15
MediaClickSlop == 5
InitialTargetZoom == 5
InitialCameraZ == 5
MaxOffset == 3
Part001DelayMs == 100
NullIndex == -1
NoTimer == -1

Items == 0 .. (N - 1)
Layers == {"front", "back"}
Strips == {"image", "text"}
TimerIds == {"scene"} \cup Strips

\* focusedItem / a mesh reference: {index, layer}; null is NoPanel.
NoPanel == [index |-> NullIndex, layer |-> "null"]
Panel(i, l) == [index |-> i, layer |-> l]
Panels == {Panel(i, l) : i \in Items, l \in Layers}

\* ZOOM_LEVELS
ZOOM_LEVELS ==
  [overview   |-> [landscape |-> 7, portrait |-> 6],
   backLayer  |-> [landscape |-> 6, portrait |-> 2],
   frontLayer |-> [landscape |-> 4, portrait |-> 2]]

Orientation(isLandscape) == IF isLandscape THEN "landscape" ELSE "portrait"

\* getZoomLevel with the orientation ignored.
getZoomLevel_landscapeOnly(layer, isLandscape) == ZOOM_LEVELS[layer]["landscape"]

getZoomLevel(layer, isLandscape) == ZOOM_LEVELS[layer][Orientation(isLandscape)]

\* A THREE.Vector3 that the focus logic handles: the origin, or the base position the
\* layout gives a panel, kept as the panel it belongs to (the numeric layout is not
\* needed to tell one of them from another).
Origin == [kind |-> "origin", index |-> NullIndex, layer |-> "null"]

\* Lengths along the camera's axes are counted in Unit-ths of a world unit, and
\* THREE.Vector3 arithmetic is done in that fixed-point resolution (fine enough for
\* a tenth of the 0.01 a frame compares distances with to be several steps, coarse
\* enough for squared distances to stay below 2^31).
Unit == 5000
ZoomSpeed == Unit \div 10

\* A THREE.Vector3 given by its numbers (x and y in Unit-ths).
Point(x, y) == [kind |-> "point", x |-> x, y |-> y]

\* An event listener: the component that registered it and the event type.  Scene's
\* listeners effect registers six and its cleanup removes these:
Listener(component, type) == [component |-> component, type |-> type]

SceneListenerSetup ==
  {Listener("scene", type) :
     type \in {"pointerdown", "pointermove", "pointerup", "click", "dblclick", "wheel"}}

\* As SceneListenerCleanup, with the click listener left registered.
SceneListenerCleanup_clickLeft ==
  {Listener("scene", type) :
     type \in {"pointerdown", "pointermove", "pointerup", "dblclick", "wheel"}}

SceneListenerCleanup ==
  {Listener("scene", type) :
     type \in {"pointerdown", "pointermove", "pointerup", "click", "dblclick", "wheel"}}

\* Scene's resize effect, and each strip's pointerdown effect.
ResizeListenerSetup == {Listener("scene", "resize")}
ResizeListenerCleanup == {Listener("scene", "resize")}
StripListenerSetup == {Listener(s, "pointerdown") : s \in Strips}
StripListenerCleanup == {Listener(s, "pointerdown") : s \in Strips}

VARIABLES
  focusedItem,        \* Scene: React state {index, layer}
  targetPosition,     \* Scene: ref, Vector3
  targetZoom,         \* Scene: ref
  animating,          \* Scene: ref
  isDragging,         \* Scene: ref
  wasRotatingState,   \* Scene: React state
  wasRotating,        \* Scene: ref
  elapsed,            \* Date.now() - dragStartTime.current, exact up to MaxElapsed
  dragDistance,       \* Scene: ref {x, y}
  activePanel,        \* Scene: ref, the mesh hit at pointer-down or null
  allowInteraction,   \* Scene: ref
  interactionResetTimer, \* Scene: ms left of the pending timeout, or NoTimer
  isMobile,           \* Scene: React state
  mediaStates,        \* Scene: React state, per item rotation and derived position
  sceneRotation,      \* scene.rotation {x, y, z}
  cameraZ,            \* camera.position.z, in Unit-ths
  cameraXY,           \* camera.position x and y: a point, or the vector it has reached
  sceneViewport,      \* viewport.width > viewport.height as captured by Scene's listeners
  listeners,          \* the event listeners registered on window and canvas
  interactionEnabled, \* per strip: ref
  interactionTimer,   \* per strip: ms left of the pending timeout, or NoTimer
  staleTimeouts,      \* per timer ref: ms left of the pending timeouts it holds no more
  viewportLandscape,  \* the renderer's current viewport.width > viewport.height
  gesture,            \* the pointer: "idle", "pressed", "released" (click not yet sent)
  initialHit,         \* the panel under the pointer at pointer-down (the renderer's click target)
  clicks,             \* click events in a row, for the browser's dblclick
  gestureStart,       \* observer: focusedItem, wasRotatingState and the target as the pointer-down of
                      \* the gesture in progress found them
  lastPosition,       \* lastPosition.current, in pixels from where the pointer is now
  viewport,           \* the renderer's viewport: width and height in world units
  images,             \* the image strip's images state: the aspect ratio of each item
  textPng,            \* the text-png.tsx variant: each strip's own focusedIndex,
                      \* targetPosition, targetZoom and animating, the camera's
                      \* position, and the panel a pointer-down awaits its click on
  part001,            \* src/unnamed/part_001's Scene: its refs, the rotations it
                      \* writes and the ms left of each pending timeout
  sketch              \* cassandra.tsx's P5Sketch: the effect's position, p5Instance,
                      \* intervalIds.current and the intervals that are active

vars == <<focusedItem, targetPosition, targetZoom, animating, isDragging,
          wasRotatingState, wasRotating, elapsed, dragDistance, activePanel,
          allowInteraction, interactionResetTimer, isMobile, mediaStates,
          sceneRotation, cameraZ, cameraXY, sceneViewport, listeners, interactionEnabled,
          interactionTimer, staleTimeouts, viewportLandscape, gesture, initialHit,
          clicks, gestureStart, lastPosition, viewport, images, textPng, part001,
          sketch>>

\* Every variable but lastPosition.
handlerVars == <<focusedItem, targetPosition, targetZoom, animating, isDragging,
                 wasRotatingState, wasRotating, elapsed, dragDistance, activePanel,
                 allowInteraction, interactionResetTimer, isMobile, mediaStates,
                 sceneRotation, cameraZ, cameraXY, sceneViewport, listeners,
                 interactionEnabled, interactionTimer, staleTimeouts, viewportLandscape,
                 gesture, initialHit, clicks, gestureStart, viewport, images, textPng,
                 part001, sketch>>

\* The state of final.tsx.
finalTsxVars == <<focusedItem, targetPosition, targetZoom, animating, isDragging,
               wasRotatingState, wasRotating, elapsed, dragDistance, activePanel,
               allowInteraction, interactionResetTimer, isMobile, mediaStates,
               sceneRotation, cameraZ, cameraXY, sceneViewport, listeners,
               interactionEnabled, interactionTimer, staleTimeouts, viewportLandscape,
               gesture, initialHit, clicks, gestureStart, viewport, images,
               lastPosition>>

\* Every variable but textPng, every variable but part001, every variable but sketch.
finalVars == <<finalTsxVars, part001, sketch>>
part001Vars == <<finalTsxVars, textPng, sketch>>
sketchVars == <<finalTsxVars, textPng, part001>>

focusVars == <<focusedItem, targetPosition, targetZoom, animating>>
dragVars == <<isDragging, elapsed, dragDistance, activePanel>>
envVars == <<viewportLandscape, gesture, initialHit, clicks, gestureStart>>

\* Where the pointer is, in pixels from where the pointer is: the value of
\* { x: e.clientX, y: e.clientY } in the event being handled.
AtPointer == [x |-> 0, y |-> 0]

\* gestureStart when no gesture is in progress.
NoGesture == [focusedItem |-> NoPanel, cooldown |-> FALSE,
              targetPosition |-> Origin, targetZoom |-> 0]

Abs(n) == IF n < 0 THEN -n ELSE n
Min(a, b) == IF a < b THEN a ELSE b
Max(a, b) == IF a < b THEN b ELSE a

\* userData.basePosition of the mesh of panel p as last rendered.
BasePosition(p) ==
  [kind |-> "base", index |-> p.index, layer |-> p.layer]

\* As getBackPosition, with each offset taken from the angle about its own axis.
getBackPosition_ownAxis(rotation, basePosition) ==
  [base |-> basePosition, sinX |-> rotation.x, sinY |-> rotation.y,
   maxOffset |-> MaxOffset, z |-> -1]

\* getBackPosition: (base.x + sin(rotation.y)*maxOffset, base.y + sin(rotation.x)*maxOffset, -1),
\* kept as its base, the two angles whose sines are taken, the amplitude and z.
getBackPosition(rotation, basePosition) ==
  [base |-> basePosition, sinX |-> rotation.y, sinY |-> rotation.x,
   maxOffset |-> MaxOffset, z |-> -1]

(* ------------------------------- layout -------------------------------- *)
\* Lengths and ratios of the layout are exact fractions [n, d] in lowest terms, d > 0.
RECURSIVE GCD(_, _)
GCD(a, b) == IF b = 0 THEN a ELSE GCD(b, a % b)

R(n, d) ==
  LET g == GCD(Abs(n), Abs(d))
      sgn == IF d < 0 THEN -1 ELSE 1
  IN  [n |-> sgn * (n \div g), d |-> sgn * (d \div g)]

RAdd(a, b) == R(a.n * b.d + b.n * a.d, a.d * b.d)
RSub(a, b) == R(a.n * b.d - b.n * a.d, a.d * b.d)
RMul(a, b) == R(a.n * b.n, a.d * b.d)
RDiv(a, b) == R(a.n * b.d, a.d * b.n)
RLess(a, b) == a.n * b.d < b.n * a.d
RInt(k) == R(k, 1)
RZero == RInt(0)

\* Math.max(...values), values a non-empty sequence.
RMax(values) ==
  CHOOSE m \in {values[j] : j \in 1 .. Len(values)} :
    \A j \in 1 .. Len(values) : ~RLess(m, values[j])

\* values.reduce((sum, h) => sum + h, 0) over the first k values.
RECURSIVE RSum(_, _)
RSum(values, k) == IF k = 0 THEN RZero ELSE RAdd(RSum(values, k - 1), values[k])

\* The spacing between neighbours and the space the strip may take.
Spacing(mobile, isLandscape) ==
  IF mobile THEN (IF isLandscape THEN R(1, 2) ELSE R(3, 10))
            ELSE (IF isLandscape THEN R(7, 10) ELSE R(2, 5))

ImageAvailableSpace(vp, mobile, isLandscape) ==
  IF mobile
    THEN (IF isLandscape THEN RMul(RInt(vp.width), R(19, 20))
                         ELSE RMul(RInt(vp.height), R(7, 10)))
    ELSE (IF isLandscape THEN RMul(RInt(vp.width), R(9, 10))
                         ELSE RMul(RInt(vp.height), R(7, 10)))

TextAvailableSpace(vp, mobile, isLandscape) ==
  IF mobile
    THEN (IF isLandscape THEN RMul(RInt(vp.width), R(19, 20))
                         ELSE RMul(RInt(vp.height), R(4, 5)))
    ELSE (IF isLandscape THEN RMul(RInt(vp.width), R(9, 10))
                         ELSE RMul(RInt(vp.height), R(7, 10)))

BaseWidth(availableSpace, spacing, total) ==
  RDiv(RSub(availableSpace, RMul(RInt(total - 1), spacing)), RInt(total))

\* As LandscapeX, with the half-item shift left out.
LandscapeX_noHalf(i, total, width, spacing) ==
  RMul(RSub(RInt(i), RDiv(RInt(total), RInt(2))), RAdd(width, spacing))

\* xPos = (i - total / 2 + 0.5) * (width + spacing)
LandscapeX(i, total, width, spacing) ==
  RMul(RAdd(RSub(RInt(i), RDiv(RInt(total), RInt(2))), R(1, 2)), RAdd(width, spacing))

\* yPos = (maxHeight - height) / 2
LandscapeY(maxHeight, height) == RDiv(RSub(maxHeight, height), RInt(2))

\* As PortraitY, with the spacing left out of the steps past the previous items.
PortraitY_noSpacing(i, heights, spacing) ==
  LET total == Len(heights)
      totalHeight == RAdd(RSum(heights, total), RMul(RInt(total - 1), spacing))
  IN  RSub(RSub(RDiv(totalHeight, RInt(2)), RSum(heights, i)),
           RDiv(heights[i + 1], RInt(2)))

\* The portrait yPos of item i: from the top edge totalHeight / 2, down past the
\* items before it and their spacing, then half its own height.
PortraitY(i, heights, spacing) ==
  LET total == Len(heights)
      totalHeight == RAdd(RSum(heights, total), RMul(RInt(total - 1), spacing))
  IN  RSub(RSub(RSub(RDiv(totalHeight, RInt(2)), RSum(heights, i)),
                RMul(RInt(i), spacing)),
           RDiv(heights[i + 1], RInt(2)))

IsFocused(focus, i, isBackLayer) ==
  focus.index = i /\ focus.layer = (IF isBackLayer THEN "back" ELSE "front")

\* As ImageStripMeshes, with the focus scale applied to the plane's width and height.
ImageStripMeshes_scaledPlane(imgs, vp, mobile, isBackLayer, zPosition, focus, states) ==
  LET isLandscape == vp.width > vp.height
      spacing == Spacing(mobile, isLandscape)
      total == Len(imgs)
      baseWidth == BaseWidth(ImageAvailableSpace(vp, mobile, isLandscape), spacing, total)
      heights == [j \in 1 .. total |-> RDiv(baseWidth, imgs[j])]
      maxHeight == RMax(heights)
      scale(i) == IF isBackLayer
                    THEN (IF IsFocused(focus, i, isBackLayer) THEN R(6, 5) ELSE RInt(1))
                    ELSE (IF IsFocused(focus, i, isBackLayer) THEN R(11, 10) ELSE RInt(1))
  IN  [i \in 0 .. total - 1 |->
         [position |-> [x |-> IF isLandscape
                                THEN LandscapeX(i, total, baseWidth, spacing) ELSE RZero,
                        y |-> IF isLandscape
                                THEN LandscapeY(maxHeight, heights[i + 1])
                                ELSE PortraitY(i, heights, spacing),
                        z |-> zPosition],
          rotation |-> IF isBackLayer THEN [x |-> 0, y |-> 0] ELSE states[i].rotation,
          scale |-> scale(i),
          width |-> RMul(baseWidth, scale(i)),
          height |-> RMul(heights[i + 1], scale(i))]]

\* The meshes ResponsiveImageStrip renders, images loaded: for each item its position,
\* rotation and scale props and the width and height of its plane.
ImageStripMeshes(imgs, vp, mobile, isBackLayer, zPosition, focus, states) ==
  LET isLandscape == vp.width > vp.height
      spacing == Spacing(mobile, isLandscape)
      total == Len(imgs)
      baseWidth == BaseWidth(ImageAvailableSpace(vp, mobile, isLandscape), spacing, total)
      heights == [j \in 1 .. total |-> RDiv(baseWidth, imgs[j])]
      maxHeight == RMax(heights)
  IN  [i \in 0 .. total - 1 |->
         [position |-> [x |-> IF isLandscape
                                THEN LandscapeX(i, total, baseWidth, spacing) ELSE RZero,
                        y |-> IF isLandscape
                                THEN LandscapeY(maxHeight, heights[i + 1])
                                ELSE PortraitY(i, heights, spacing),
                        z |-> zPosition],
          rotation |-> IF isBackLayer THEN [x |-> 0, y |-> 0] ELSE states[i].rotation,
          scale |-> IF isBackLayer
                      THEN (IF IsFocused(focus, i, isBackLayer) THEN R(6, 5) ELSE RInt(1))
                      ELSE (IF IsFocused(focus, i, isBackLayer) THEN R(11, 10)
                                                                ELSE RInt(1)),
          width |-> baseWidth,
          height |-> heights[i + 1]]]

\* imageRotation.x % (Math.PI * 2), angles in hundredths of a radian: the remainder
\* has the sign of the angle.
TwoPi == 628
JsRemainder(a, m) == IF a >= 0 THEN a % m ELSE -((-a) % m)

\* THREE.MathUtils.lerp(from, to, Math.abs(Math.sin((angle % (Math.PI * 2)) / 2))),
\* kept as its arguments.
TextParameter(from, to, angle) ==
  [from |-> from, to |-> to, absSinOfHalf |-> JsRemainder(angle, TwoPi)]

\* The meshes ResponsiveTextStrip renders.  A back-layer panel sits on an ellipse:
\* x = cos(angle) * a + shiftX, y = sin(angle) * b, turned by rotatedBy about z, the
\* angles in units of pi; the position is kept as these terms.  letterSpacing lerps
\* from -10 to 15 and lineHeight from 0.1 to 2 (kept in tenths).
TextStripMeshes(texts, vp, mobile, isBackLayer, zPosition, focus, states) ==
  LET isLandscape == vp.width > vp.height
      spacing == Spacing(mobile, isLandscape)
      total == Cardinality(DOMAIN texts)
      availableSpace == TextAvailableSpace(vp, mobile, isLandscape)
      baseWidth == BaseWidth(availableSpace, spacing, total)
      maxHeight == RDiv(baseWidth, R(3, 2))
      height == RDiv(baseWidth, R(3, 2))
      ellipseWidth == IF isLandscape
                        THEN RMul(availableSpace, IF mobile THEN RInt(3) ELSE R(9, 4))
                        ELSE RMul(maxHeight, IF mobile THEN RInt(25) ELSE RInt(40))
      ellipseHeight == IF isLandscape
                         THEN RMul(maxHeight, RInt(10))
                         ELSE RMul(availableSpace, IF mobile THEN R(4, 5) ELSE RInt(1))
      rotationOffset == IF isLandscape THEN R(1, 2) ELSE R(-2, 5)
      portraitRotation == IF isLandscape THEN RZero ELSE R(1, 2)
  IN  [i \in 0 .. total - 1 |->
         [text |-> texts[i].text,
          letterSpacing |-> TextParameter(-10, 15, states[i].rotation.x),
          lineHeight |-> TextParameter(1, 20, states[i].rotation.y),
          position |->
            IF isBackLayer
              THEN [angle |-> RAdd(RMul(R(i, total), RInt(2)), rotationOffset),
                    a |-> RDiv(ellipseWidth, RInt(2)),
                    shiftX |-> IF isLandscape THEN RZero ELSE RInt(-1),
                    b |-> RDiv(ellipseHeight, RInt(2)),
                    rotatedBy |-> portraitRotation,
                    z |-> zPosition]
              ELSE [x |-> RZero, y |-> RZero, z |-> zPosition],
          rotation |-> IF isBackLayer THEN [x |-> 0, y |-> 0] ELSE states[i].rotation,
          scale |-> IF isBackLayer
                      THEN (IF IsFocused(focus, i, isBackLayer) THEN RInt(3) ELSE R(11, 5))
                      ELSE (IF IsFocused(focus, i, isBackLayer) THEN R(11, 10)
                                                                ELSE RInt(1)),
          width |-> baseWidth,
          height |-> height]]

(* ----------------------------- text-png.tsx ---------------------------- *)
\* The variant in which each strip keeps its own focus and animation target and runs
\* its own frame callback on the one camera.  Vectors are numbers in Unit-ths.
TextPngZoomLevels ==
  [overview   |-> [landscape |-> 10, portrait |-> 12],
   backLayer  |-> [landscape |-> 6, portrait |-> 4],
   frontLayer |-> [landscape |-> 3, portrait |-> 2]]

TextPngZoom(layer, isLandscape) == TextPngZoomLevels[layer][Orientation(isLandscape)]

TextPngStripInitial ==
  [focusedIndex |-> NullIndex, targetPosition |-> [x |-> 0, y |-> 0],
   targetZoom |-> InitialTargetZoom, animating |-> FALSE]

TextPngInitial ==
  [strip |-> [s \in Strips |-> TextPngStripInitial],
   camera |-> [x |-> 0, y |-> 0, z |-> InitialCameraZ * Unit],
   hit |-> NoPanel]

\* userData.basePosition of a panel: front panels in a row, back panels above it.
TextPngBasePosition(p) ==
  IF p.layer = "front" THEN [x |-> (2 * p.index - 1) * Unit, y |-> 0]
                       ELSE [x |-> 2 * p.index * Unit, y |-> 3 * Unit]

\* The zoom a strip's pointer-down handler resets to: the image strip's overview
\* level, the text strip's literal 10 or 5.
TextPngResetZoom(s, isLandscape) ==
  IF s = "image" THEN TextPngZoom("overview", isLandscape)
                 ELSE (IF isLandscape THEN 10 ELSE 5)

\* A strip's pointerdown listener; hit: the ray crosses one of the strip's own meshes.
TextPngStripPointerDown(s, st, hit, isLandscape) ==
  IF ~interactionEnabled[s] THEN st
  ELSE IF st.focusedIndex # NullIndex /\ ~hit
    THEN [focusedIndex |-> NullIndex, targetPosition |-> [x |-> 0, y |-> 0],
          targetZoom |-> TextPngResetZoom(s, isLandscape), animating |-> TRUE]
    ELSE st

\* A strip's handleMediaClick(index, position, isBack).
TextPngMediaClick(st, index, position, isBack, isLandscape) ==
  IF st.focusedIndex = index
    THEN [focusedIndex |-> NullIndex, targetPosition |-> [x |-> 0, y |-> 0],
          targetZoom |-> TextPngZoom("overview", isLandscape), animating |-> TRUE]
    ELSE [focusedIndex |-> index, targetPosition |-> position,
          targetZoom |-> TextPngZoom(IF isBack THEN "backLayer" ELSE "frontLayer",
                                     isLandscape),
          animating |-> TRUE]

\* The viewport of a landscape and of a portrait window, and the five images.
DefaultViewport(landscape) ==
  IF landscape THEN [width |-> 16, height |-> 9] ELSE [width |-> 9, height |-> 16]

DefaultImages == [j \in 1 .. N |-> RInt(1)]

(* ------------------------ src/unnamed/part_001 -------------------------- *)
\* Scene's refs after construction, with scene.rotation, the rotation of the cube the
\* pointer is put on, and the ms left of each timeout handlePointerUp has set and
\* that has not fired, oldest first.  No handler keeps a timeout's id.
Part001Initial ==
  [isDragging |-> FALSE, wasRotating |-> FALSE, allowImageInteraction |-> TRUE,
   activeCube |-> FALSE,
   sceneRotation |-> [x |-> 0, y |-> 0], cubeRotation |-> [x |-> 0, y |-> 0],
   timeouts |-> <<>>]

\* handlePointerUp: if (wasRotating.current) setTimeout(..., 100).
Part001PointerUpTimeouts(wasRotatingNow, timeouts) ==
  IF wasRotatingNow THEN Append(timeouts, Part001DelayMs) ELSE timeouts

(* ---------------------- src/app/routes/cassandra.tsx --------------------- *)
\* The five divs p.setup fills, each by an interval of its own.
SketchDivs == {"question", "intro", "memory", "outro", "hallucination"}

\* One P5Sketch component: whether it is mounted, where its effect's setupSketch is
\* (awaiting the imports, past them, or in its catch), the effect's p5Instance,
\* whether p5 has called p.setup, and intervalIds.current.  An interval's id is kept
\* as the component and the div it was set for.
SketchComponent(stage) ==
  [stage |-> stage, import |-> "pending", p5Instance |-> "null", setup |-> FALSE,
   intervalIds |-> {}]

\* The first component mounted and its effect run; the window's active intervals;
\* the intervals whose callback has run.
SketchInitial ==
  [component |-> [k \in 1 .. MaxMounts |->
                    SketchComponent(IF k = 1 THEN "mounted" ELSE "none")],
   active |-> {},
   generated |-> {}]

InitialMediaState ==
  [rotation |-> [x |-> 0, y |-> 0],
   position |-> [base |-> Origin, sinX |-> 0, sinY |-> 0, maxOffset |-> 0, z |-> 0]]

Init ==
  /\ focusedItem = NoPanel
  /\ targetPosition = Origin
  /\ targetZoom = InitialTargetZoom
  /\ animating = FALSE
  /\ isDragging = FALSE
  /\ wasRotatingState = FALSE
  /\ wasRotating = FALSE
  /\ elapsed = MaxElapsed
  /\ lastPosition = AtPointer
  /\ textPng = TextPngInitial
  /\ part001 = Part001Initial
  /\ sketch = SketchInitial
  /\ images = DefaultImages
  /\ dragDistance = [x |-> 0, y |-> 0]
  /\ activePanel = NoPanel
  /\ allowInteraction = TRUE
  /\ interactionResetTimer = NoTimer
  /\ isMobile \in BOOLEAN
  /\ mediaStates = [i \in Items |-> InitialMediaState]
  /\ sceneRotation = [x |-> 0, y |-> 0, z |-> 0]
  /\ cameraZ = InitialCameraZ * Unit
  /\ cameraXY = Origin
  /\ viewportLandscape \in BOOLEAN
  /\ viewport = DefaultViewport(viewportLandscape)
  /\ sceneViewport = viewportLandscape
  /\ listeners = SceneListenerSetup \cup ResizeListenerSetup \cup StripListenerSetup
  /\ interactionEnabled = [s \in Strips |-> TRUE]
  /\ interactionTimer = [s \in Strips |-> NoTimer]
  /\ staleTimeouts = [t \in TimerIds |-> {}]
  /\ gesture = "idle"
  /\ initialHit = NoPanel
  /\ clicks = 0
  /\ gestureStart = NoGesture

(* ------------------------- shared focus handler ------------------------ *)
\* The four values handleMediaFocus reads and writes.
FocusOf(f, tp, tz, an) ==
  [focusedItem |-> f, targetPosition |-> tp, targetZoom |-> tz, animating |-> an]

CurrentFocus == FocusOf(focusedItem, targetPosition, targetZoom, animating)

\* As StripContext, with the text strip left with a focus and an animation target of
\* its own that nothing has written.
StripContext_ownForText(s) ==
  IF s = "text" THEN FocusOf(NoPanel, Origin, InitialTargetZoom, FALSE) ELSE CurrentFocus

\* The focusContext and animationContext Scene hands strip s: for both strips its own
\* focusedItem state and its own targetPosition, targetZoom and animating refs.
StripContext(s) == CurrentFocus

\* The strip that renders the panels of a layer.
StripOf(layer) == IF layer = "back" THEN "text" ELSE "image"

\* handleMediaFocus whose toggle clears the index and keeps the layer.
handleMediaFocus_layerKept(index, position, layer, cur, isLandscape) ==
  IF index = NullIndex
    THEN FocusOf(NoPanel, Origin, getZoomLevel("overview", isLandscape), TRUE)
    ELSE IF cur.focusedItem.index = index /\ cur.focusedItem.layer = layer
      THEN FocusOf([index |-> NullIndex, layer |-> layer], Origin,
                   getZoomLevel("overview", isLandscape), TRUE)
      ELSE FocusOf(Panel(index, layer), position,
                   getZoomLevel(IF layer = "back" THEN "backLayer" ELSE "frontLayer",
                                isLandscape),
                   TRUE)

\* handleMediaFocus(index, position, layer, focusContext, animationContext, viewport)
handleMediaFocus(index, position, layer, cur, isLandscape) ==
  IF index = NullIndex
    THEN FocusOf(NoPanel, Origin, getZoomLevel("overview", isLandscape), TRUE)
    ELSE IF cur.focusedItem.index = index /\ cur.focusedItem.layer = layer
      THEN FocusOf(NoPanel, Origin, getZoomLevel("overview", isLandscape), TRUE)
      ELSE FocusOf(Panel(index, layer), position,
                   getZoomLevel(IF layer = "back" THEN "backLayer" ELSE "frontLayer",
                                isLandscape),
                   TRUE)

SetFocus(f) ==
  /\ focusedItem' = f.focusedItem
  /\ targetPosition' = f.targetPosition
  /\ targetZoom' = f.targetZoom
  /\ animating' = f.animating

(* ------------------------------ effects -------------------------------- *)
\* Scene's effect on [wasRotatingState]: it runs when the state value changed; it
\* clears the pending timeout and, when the new value is true, schedules the reset.
\* As ClearTimeout, with the timeout left pending.
ClearTimeout_kept(timer) == timer

\* clearTimeout(ref.current): what is left pending of the timeout the ref holds.
ClearTimeout(timer) == NoTimer

\* As SceneTimerEffect, with the reset scheduled after the strips' delay and not
\* before it.
SceneTimerEffect_late(old, new, timer) ==
  IF new = old THEN timer
  ELSE IF new THEN StripDelayMs + CooldownMs ELSE ClearTimeout(timer)

SceneTimerEffect(old, new, timer) ==
  IF new = old THEN timer
  ELSE IF new THEN CooldownMs ELSE ClearTimeout(timer)

\* The pending timeouts a ref holds no more once its effect has run: setTimeout
\* overwrites the ref, and a timeout that was still pending stays pending.
StaleEffect(old, new, timer, stale) ==
  IF new = old \/ ~new \/ ClearTimeout(timer) = NoTimer
    THEN stale
    ELSE stale \cup {ClearTimeout(timer)}

\* Each strip's effect on its wasRotating prop (= Scene's wasRotatingState).
StripEnabledEffect(old, new, enabled) ==
  IF new = old THEN enabled ELSE ~new

StripTimerEffect(old, new, timer) ==
  IF new = old THEN timer
  ELSE IF new THEN StripDelayMs ELSE ClearTimeout(timer)

\* The commit after an event that leaves wasRotatingState at ws.
Commit(ws) ==
  /\ wasRotatingState' = ws
  /\ interactionResetTimer' = SceneTimerEffect(wasRotatingState, ws, interactionResetTimer)
  /\ interactionEnabled' =
       [s \in Strips |-> StripEnabledEffect(wasRotatingState, ws, interactionEnabled[s])]
  /\ interactionTimer' =
       [s \in Strips |-> StripTimerEffect(wasRotatingState, ws, interactionTimer[s])]
  /\ staleTimeouts' =
       [t \in TimerIds |->
          StaleEffect(wasRotatingState, ws,
                      IF t = "scene" THEN interactionResetTimer ELSE interactionTimer[t],
                      staleTimeouts[t])]

(* ---------------------------- pointer-down ----------------------------- *)
\* ResponsiveImageStrip.handlePointerDown: the ray is tested against the strip's own
\* meshes only (groupRef.current.children), imageHit says whether it crosses one.
ImageStripPointerDown_anyFocus(cur, imageHit) ==
  IF ~interactionEnabled["image"] THEN cur
  ELSE IF ~imageHit
    THEN handleMediaFocus(NullIndex, Origin, "null", cur, viewportLandscape)
    ELSE cur

ImageStripPointerDown(cur, imageHit) ==
  IF ~interactionEnabled["image"] THEN cur
  ELSE IF cur.focusedItem.index # NullIndex /\ ~imageHit
    THEN handleMediaFocus(NullIndex, Origin, "null", cur, viewportLandscape)
    ELSE cur

\* ResponsiveTextStrip.handlePointerDown: past the two guards it evaluates
\* scene.traverse with no binding of scene in scope (the component takes only camera
\* from useThree), so the listener ends there with a ReferenceError and writes nothing.
TextStripPointerDown(cur, seen) ==
  IF ~interactionEnabled["text"] THEN cur
  ELSE IF seen.index # NullIndex
    THEN cur
    ELSE cur

\* The items the pointer is put on.
HitPanels == {Panel(i, l) : i \in 0 .. Min(MaxHitItem, N - 1), l \in Layers}

\* As PointerPosition, with lastPosition left as it was.
PointerPosition_stale(last) == last

\* What handlePointerDown stores into lastPosition.current, which held last.
PointerPosition(last) == AtPointer

\* One pointerdown event: Scene.handlePointerDown and both strips' listeners.
\* p is the nearest panel on the ray (or NoPanel), frontAlso whether a front image
\* lies behind a nearest back panel.
PointerDown(p, frontAlso) ==
  /\ gesture # "pressed"
  /\ frontAlso => p.layer = "back"
  /\ LET imageHit == p.layer = "front" \/ frontAlso
     IN  SetFocus(TextStripPointerDown(
                    ImageStripPointerDown(StripContext("image"), imageHit),
                    StripContext("text").focusedItem))
  /\ isDragging' = TRUE
  /\ wasRotating' = FALSE
  /\ elapsed' = 0
  /\ lastPosition' = PointerPosition(lastPosition)
  /\ dragDistance' = [x |-> 0, y |-> 0]
  /\ activePanel' = p
  /\ Commit(IF p # NoPanel THEN FALSE ELSE wasRotatingState)
  /\ gesture' = "pressed"
  /\ initialHit' = p
  /\ clicks' = IF gesture = "released" THEN 0 ELSE clicks
  /\ gestureStart' = [focusedItem |-> focusedItem, cooldown |-> wasRotatingState,
                      targetPosition |-> targetPosition, targetZoom |-> targetZoom]
  /\ UNCHANGED <<textPng, part001, sketch, viewport, images, allowInteraction, isMobile, mediaStates, sceneRotation, cameraZ, cameraXY,
                 sceneViewport, listeners, viewportLandscape>>

(* ---------------------------- pointer-move ----------------------------- *)
\* handleMediaRotation(index, deltaX, deltaY, basePosition)
\* As handleMediaRotation, with each angle wrapped into one turn (628 hundredths of
\* a radian).
handleMediaRotation_wrapped(states, index, deltaX, deltaY, basePosition) ==
  [i \in Items |->
     IF i = index
       THEN LET newRotation == [x |-> (states[i].rotation.x + deltaY) % 628,
                                y |-> (states[i].rotation.y + deltaX) % 628]
            IN  [rotation |-> newRotation,
                 position |-> getBackPosition(newRotation, basePosition)]
       ELSE states[i]]

\* As handleMediaRotation, turning every item and not only the one dragged.
handleMediaRotation_everyItem(states, index, deltaX, deltaY, basePosition) ==
  [i \in Items |->
     LET newRotation == [x |-> states[i].rotation.x + deltaY,
                         y |-> states[i].rotation.y + deltaX]
     IN  [rotation |-> newRotation,
          position |-> getBackPosition(newRotation, basePosition)]]

handleMediaRotation(states, index, deltaX, deltaY, basePosition) ==
  [i \in Items |->
     IF i = index
       THEN LET newRotation == [x |-> states[i].rotation.x + deltaY,
                                y |-> states[i].rotation.y + deltaX]
            IN  [rotation |-> newRotation,
                 position |-> getBackPosition(newRotation, basePosition)]
       ELSE states[i]]

RotationThreshold(mobile) == IF mobile THEN RotThresholdMobile ELSE RotThresholdDesktop

\* As RotatesScene, with the vertical distance left out of the test.
RotatesScene_horizontalOnly(dd, mobile) ==
  dd.x > RotationThreshold(mobile)

\* Whether handlePointerMove rotates the scene, for the accumulated distance dd.
RotatesScene(dd, mobile) ==
  dd.x > RotationThreshold(mobile) \/ dd.y > RotationThreshold(mobile)

\* One pointermove event, the pointer having moved by (dx, dy) pixels since the
\* event before it: Scene.handlePointerMove.  deltaX and deltaY are taken from
\* lastPosition, which a move made while no button is down leaves behind.
PointerMove(dx, dy) ==
  IF ~isDragging                       \* if (!isDragging.current) return
    THEN /\ lastPosition' = [x |-> lastPosition.x - dx, y |-> lastPosition.y - dy]
         /\ UNCHANGED handlerVars
  ELSE
    LET deltaX == dx - lastPosition.x
        deltaY == dy - lastPosition.y
        dd == [x |-> dragDistance.x + Abs(deltaX), y |-> dragDistance.y + Abs(deltaY)]
    IN
    /\ dragDistance' = dd
    /\ lastPosition' = AtPointer
    /\ IF activePanel # NoPanel
         THEN /\ IF activePanel.layer # "front"
                   THEN UNCHANGED mediaStates
                   ELSE mediaStates' = handleMediaRotation(mediaStates, activePanel.index,
                                                           deltaX, deltaY,
                                                           BasePosition(activePanel))
              /\ Commit(wasRotatingState)
              /\ UNCHANGED <<sceneRotation, wasRotating, allowInteraction>>
         ELSE IF RotatesScene(dd, isMobile)
           THEN /\ sceneRotation' = [x |-> sceneRotation.x + deltaY,
                                     y |-> sceneRotation.y + deltaX, z |-> sceneRotation.z]
                /\ wasRotating' = TRUE
                /\ Commit(TRUE)
                /\ allowInteraction' = FALSE
                /\ UNCHANGED mediaStates
           ELSE /\ Commit(wasRotatingState)
                /\ UNCHANGED <<sceneRotation, wasRotating, allowInteraction, mediaStates>>
    /\ UNCHANGED <<textPng, part001, sketch, viewport, images, focusVars, isDragging, elapsed, activePanel, isMobile, cameraZ, cameraXY,
                   sceneViewport, listeners, viewportLandscape, gesture, initialHit, gestureStart>>
    /\ clicks' = 0

(* ------------------------------ rendering ------------------------------ *)
\* As pentagonOrder, with item 3 shown twice and item 4 never.
pentagonOrder_repeated == <<2, 0, 1, 3, 3>>

\* The order in which the back layer shows the five items (1-based sequence of the
\* 0-based item indices).
pentagonOrder == <<2, 0, 1, 3, 4>>

\* The media states Scene hands the text strip: slot j holds item pentagonOrder[j].
backLayerStates == [j \in Items |-> mediaStates[pentagonOrder[j + 1]]]

\* The five back-layer texts, each kept as the item it belongs to, and the texts Scene
\* hands the text strip.
backTextContents == [i \in Items |-> [text |-> i]]
backLayerTextContents == [j \in Items |-> backTextContents[pentagonOrder[j + 1]]]

\* What Scene renders: the image strip as the front layer at z = 0 with mediaStates,
\* the text strip as the back layer at z = -2 with backLayerStates.
ImageMeshes ==
  ImageStripMeshes(images, viewport, isMobile, FALSE, 0, focusedItem, mediaStates)

TextMeshes ==
  TextStripMeshes(backLayerTextContents, viewport, isMobile, TRUE, -2, focusedItem,
                  backLayerStates)

\* The layout of a strip's meshes: the position, width and height of each.
LayoutOf(meshes) ==
  [i \in DOMAIN meshes |->
     [position |-> meshes[i].position, width |-> meshes[i].width,
      height |-> meshes[i].height]]

\* perspective.tsx.  Its Scene keeps imageStates, updated by handleImageRotation just
\* as mediaStates is by handleMediaRotation, and the same pentagonOrder; it hands
\* TextBackLayer the texts and the states unpermuted, together with pentagonOrder.
\* pentagonOrder.indexOf(i): the 0-based place of i in the order, -1 if absent.
IndexOf(order, i) ==
  IF \E k \in 1 .. Len(order) : order[k] = i
    THEN (CHOOSE k \in 1 .. Len(order) :
            order[k] = i /\ \A m \in 1 .. k - 1 : order[m] # i) - 1
    ELSE -1

correspondingFrontIndex(i) == IndexOf(pentagonOrder, i)

\* TextBackLayer's frontRotation of slot i:
\* imageStates[correspondingFrontIndex]?.rotation || new THREE.Euler(0, 0, 0)
frontRotation(imageStates, i) ==
  IF correspondingFrontIndex(i) \in DOMAIN imageStates
    THEN imageStates[correspondingFrontIndex(i)].rotation
    ELSE [x |-> 0, y |-> 0]

\* As MeshRotation, with the strip's state rendered on either layer.
MeshRotation_ofState(states, isBackLayer, i) ==
  [x |-> states[i].rotation.x, y |-> states[i].rotation.y, z |-> 0]

\* The rotation prop of mesh i of a strip rendered with these media states.
MeshRotation(states, isBackLayer, i) ==
  IF isBackLayer
    THEN [x |-> 0, y |-> 0, z |-> 0]
    ELSE [x |-> states[i].rotation.x, y |-> states[i].rotation.y, z |-> 0]

\* The rotation panel p is rendered with: the image strip is the front layer and is
\* given mediaStates, the text strip is the back layer and is given backLayerStates.
RenderedRotation(p) ==
  IF p.layer = "back"
    THEN MeshRotation(backLayerStates, TRUE, p.index)
    ELSE MeshRotation(mediaStates, FALSE, p.index)

(* ----------------------------- pointer-up ------------------------------ *)
\* As ReleasedPanel, with the panel of the gesture kept.
ReleasedPanel_kept(panel) == panel

\* What handlePointerUp leaves in activePanel.current, which held panel.
ReleasedPanel(panel) == NoPanel

ClickThreshold(mobile) == IF mobile THEN ClickThresholdMobile ELSE ClickThresholdDesktop

\* isClick with both comparisons inclusive.
IsClick_inclusive(dragDuration, dd, mobile) ==
  dragDuration <= ClickMs /\ dd.x + dd.y <= ClickThreshold(mobile)

\* const isClick = dragDuration < 200 && dragTotalDistance < clickThreshold
IsClick(dragDuration, dd, mobile) ==
  dragDuration < ClickMs /\ dd.x + dd.y < ClickThreshold(mobile)

\* One pointerup event: Scene.handlePointerUp.
PointerUp ==
  /\ gesture = "pressed"
  /\ LET isClick == IsClick(elapsed, dragDistance, isMobile)
     IN  IF ~isClick /\ wasRotating
           THEN /\ wasRotating' = TRUE
                /\ Commit(TRUE)
                /\ UNCHANGED allowInteraction
           ELSE IF isClick
             THEN /\ wasRotating' = FALSE
                  /\ Commit(FALSE)
                  /\ allowInteraction' = TRUE
             ELSE /\ Commit(wasRotatingState)
                  /\ UNCHANGED <<wasRotating, allowInteraction>>
  /\ isDragging' = FALSE
  /\ activePanel' = ReleasedPanel(activePanel)
  /\ gesture' = "released"
  /\ UNCHANGED <<textPng, part001, sketch, viewport, images, lastPosition, focusVars, elapsed, dragDistance, isMobile, mediaStates, sceneRotation,
                 cameraZ, cameraXY, sceneViewport, listeners, viewportLandscape, initialHit, clicks,
                 gestureStart>>

(* ------------------------------- click --------------------------------- *)
\* A mesh's onClick (either strip): handleMediaFocus, then onRotate(i, 0, 0, basePosition)
\* for a front mesh.  The text strip is given no onRotate, and its meshes are back ones.
MeshClickFocus(p) ==
  handleMediaFocus(p.index, BasePosition(p), p.layer, StripContext(StripOf(p.layer)),
                   viewportLandscape)

\* As MeshClickStates, with onRotate(i, 0, 0, basePosition) setting the item's angles
\* to the two zeros instead of adding them.
MeshClickStates_set(p) ==
  IF p.layer = "front"
    THEN [mediaStates EXCEPT
            ![p.index] = [rotation |-> [x |-> 0, y |-> 0],
                          position |-> getBackPosition([x |-> 0, y |-> 0], BasePosition(p))]]
    ELSE mediaStates

MeshClickStates(p) ==
  IF p.layer = "front"
    THEN handleMediaRotation(mediaStates, p.index, 0, 0, BasePosition(p))
    ELSE mediaStates

\* Scene.handleMediaClick, the window's click listener: whether it re-enables.
MediaClickEnables ==
  ~wasRotating /\ dragDistance.x < MediaClickSlop /\ dragDistance.y < MediaClickSlop

\* One click event.  onPanel: the pointer is still on the panel it went down on, so
\* the renderer calls that mesh's onClick; the window listener runs after it.
Click(onPanel) ==
  /\ gesture = "released"
  /\ onPanel => initialHit # NoPanel
  /\ IF onPanel
       THEN /\ SetFocus(MeshClickFocus(initialHit))
            /\ mediaStates' = MeshClickStates(initialHit)
       ELSE UNCHANGED <<focusVars, mediaStates>>
  /\ IF MediaClickEnables
       THEN /\ wasRotating' = FALSE
            /\ Commit(FALSE)
            /\ allowInteraction' = TRUE
       ELSE /\ Commit(wasRotatingState)
            /\ UNCHANGED <<wasRotating, allowInteraction>>
  /\ gesture' = "idle"
  /\ initialHit' = NoPanel
  /\ clicks' = Min(clicks + 1, 2)
  /\ gestureStart' = NoGesture
  /\ UNCHANGED <<textPng, part001, sketch, viewport, images, lastPosition, dragVars, isMobile, sceneRotation, cameraZ, cameraXY, sceneViewport, listeners,
                 viewportLandscape>>

(* ----------------------------- double-click ---------------------------- *)
\* One dblclick event: Scene.handleDoubleClick.  It reads viewport from the closure of
\* the effect that registered it, whose dependencies are [scene, camera, gl, isMobile].
DoubleClick ==
  /\ gesture = "idle"
  /\ clicks = 2
  /\ sceneRotation' = [x |-> 0, y |-> 0, z |-> 0]
  /\ targetPosition' = Origin
  /\ targetZoom' = getZoomLevel("overview", sceneViewport)
  /\ animating' = TRUE
  /\ wasRotating' = FALSE
  /\ Commit(FALSE)
  /\ allowInteraction' = TRUE
  /\ focusedItem' = NoPanel
  /\ clicks' = 0
  /\ UNCHANGED <<textPng, part001, sketch, viewport, images, lastPosition, dragVars, isMobile, mediaStates, cameraZ, cameraXY, sceneViewport, listeners,
                 viewportLandscape, gesture, initialHit, gestureStart>>

(* -------------------------------- wheel -------------------------------- *)
ZoomPresets ==
  {Unit * ZOOM_LEVELS[l][o] : l \in {"overview", "backLayer", "frontLayer"},
                            o \in {"landscape", "portrait"}}
    \cup {Unit * InitialCameraZ}

\* camera.position.z after a wheel event (zoomSpeed 0.1 is ZoomSpeed).
WheelZoom(z, deltaYPositive, isLandscape) ==
  LET minZoom == Unit * ZOOM_LEVELS.frontLayer[Orientation(isLandscape)] - Unit \div 2
      maxZoom == Unit * ZOOM_LEVELS.overview[Orientation(isLandscape)] + Unit
      newZoom == z + (IF deltaYPositive THEN 1 ELSE -1) * ZoomSpeed
  IN  Max(minZoom, Min(maxZoom, newZoom))

\* One wheel event: Scene.handleWheel (same closure as handleDoubleClick).
Wheel(deltaYPositive) ==
  /\ IF ~wasRotating
       THEN cameraZ' = WheelZoom(cameraZ, deltaYPositive, sceneViewport)
       ELSE UNCHANGED cameraZ
  /\ UNCHANGED <<textPng, part001, sketch, viewport, images, lastPosition, focusVars, dragVars, wasRotatingState, wasRotating, allowInteraction,
                 interactionResetTimer, isMobile, mediaStates, sceneRotation, cameraXY,
                 sceneViewport, listeners, interactionEnabled, interactionTimer, staleTimeouts, envVars>>

(* -------------------------------- timers ------------------------------- *)
Remaining(t) == IF t = "scene" THEN interactionResetTimer ELSE interactionTimer[t]

\* The ms left of every pending timeout set through ref t.
Live(t) == (IF Remaining(t) = NoTimer THEN {} ELSE {Remaining(t)}) \cup staleTimeouts[t]

\* A timeout set through ref t is due and its callback runs: Scene's reset
\* (setWasRotatingState(false), wasRotating and allowInteraction) or a strip's
\* re-enable.  The timeout is pending no more; the ref keeps its id.
TimerFire(t) ==
  /\ 0 \in Live(t)
  /\ LET timer == IF Remaining(t) = 0 THEN NoTimer ELSE Remaining(t)
         stale == IF Remaining(t) = 0 THEN staleTimeouts[t] ELSE staleTimeouts[t] \ {0}
     IN  /\ staleTimeouts' = [staleTimeouts EXCEPT ![t] = stale]
         /\ IF t = "scene"
              THEN /\ wasRotating' = FALSE
                   /\ allowInteraction' = TRUE
                   /\ wasRotatingState' = FALSE
                   /\ interactionResetTimer' =
                        SceneTimerEffect(wasRotatingState, FALSE, timer)
                   /\ interactionEnabled' =
                        [s \in Strips |->
                           StripEnabledEffect(wasRotatingState, FALSE, interactionEnabled[s])]
                   /\ interactionTimer' =
                        [s \in Strips |->
                           StripTimerEffect(wasRotatingState, FALSE, interactionTimer[s])]
              ELSE /\ interactionEnabled' = [interactionEnabled EXCEPT ![t] = TRUE]
                   /\ interactionTimer' = [interactionTimer EXCEPT ![t] = timer]
                   /\ UNCHANGED <<wasRotating, allowInteraction, wasRotatingState,
                                  interactionResetTimer>>
  /\ UNCHANGED <<textPng, part001, sketch, viewport, images, lastPosition, focusVars, dragVars, isMobile, mediaStates, sceneRotation, cameraZ,
                 cameraXY, sceneViewport, listeners, envVars>>

Pending == {t \in TimerIds : Live(t) # {}}

Advance(timer, d) == IF timer = NoTimer THEN NoTimer ELSE timer - d

\* Time passes: by a step, or up to the next timeout that is due, whichever is first.
Tick(step) ==
  /\ \A t \in Pending : \A r \in Live(t) : r > 0
  /\ LET left == UNION {Live(t) : t \in Pending}
         d == IF Pending = {} THEN step
              ELSE Min(step, CHOOSE m \in left : \A r \in left : m <= r)
     IN  /\ elapsed' = Min(elapsed + d, MaxElapsed)
         /\ interactionResetTimer' = Advance(interactionResetTimer, d)
         /\ interactionTimer' = [s \in Strips |-> Advance(interactionTimer[s], d)]
         /\ staleTimeouts' = [t \in TimerIds |-> {r - d : r \in staleTimeouts[t]}]
  /\ elapsed' # elapsed \/ Pending # {}
  /\ clicks' = 0
  /\ UNCHANGED <<textPng, part001, sketch, viewport, images, lastPosition, focusVars, isDragging, wasRotatingState, wasRotating, dragDistance,
                 activePanel, allowInteraction, isMobile, mediaStates, sceneRotation,
                 cameraZ, cameraXY, sceneViewport, listeners, interactionEnabled, viewportLandscape,
                 gesture, initialHit, gestureStart>>

(* -------------------------- viewport and device ------------------------ *)
\* The renderer's viewport changes orientation: Scene and the strips render again, the
\* strips' listeners and handlers are re-created, Scene's listeners are not.
ViewportChange ==
  /\ viewportLandscape' = ~viewportLandscape
  /\ viewport' = [width |-> viewport.height, height |-> viewport.width]
  /\ UNCHANGED <<textPng, part001, sketch, images, lastPosition, focusVars, dragVars, wasRotatingState, wasRotating, allowInteraction,
                 interactionResetTimer, isMobile, mediaStates, sceneRotation, cameraZ, cameraXY,
                 sceneViewport, listeners, interactionEnabled, interactionTimer, staleTimeouts, gesture,
                 initialHit, clicks, gestureStart>>

\* Scene's resize listener when window.innerWidth crosses 768: isMobile changes and
\* the listeners effect runs again, taking the viewport of that render.
HandleResize ==
  /\ isMobile' = ~isMobile
  /\ sceneViewport' = viewportLandscape
  /\ listeners' = (listeners \ SceneListenerCleanup) \cup SceneListenerSetup
  /\ UNCHANGED <<textPng, part001, sketch, viewport, images, lastPosition, focusVars, dragVars, wasRotatingState, wasRotating, allowInteraction,
                 interactionResetTimer, mediaStates, sceneRotation, cameraZ, cameraXY,
                 interactionEnabled, interactionTimer, staleTimeouts, envVars>>

(* ------------------------------- unmount ------------------------------- *)
\* Scene and both strips unmount: the cleanup of every effect runs.  The listeners
\* effect, the resize effect and the strips' pointerdown effects remove their
\* listeners; the three timer effects clear the timeout their ref holds.
Unmount ==
  /\ listeners' = ((listeners \ SceneListenerCleanup) \ ResizeListenerCleanup)
                     \ StripListenerCleanup
  /\ interactionResetTimer' = ClearTimeout(interactionResetTimer)
  /\ interactionTimer' = [s \in Strips |-> ClearTimeout(interactionTimer[s])]
  /\ UNCHANGED <<textPng, part001, sketch, viewport, images, lastPosition, focusVars, dragVars, wasRotatingState, wasRotating, allowInteraction,
                 isMobile, mediaStates, sceneRotation, cameraZ, cameraXY, sceneViewport,
                 interactionEnabled, staleTimeouts, envVars>>

(* -------------------------------- frames ------------------------------- *)
\* useFrame, for the frame at which the interpolation comes within 0.01 of its
\* target: animating is cleared.  The frames before it move the camera between its
\* start and the target and write nothing else; those positions are not represented.
Frame ==
  /\ animating
  /\ cameraZ' = Unit * targetZoom
  /\ cameraXY' = targetPosition
  /\ animating' = FALSE
  /\ UNCHANGED <<textPng, part001, sketch, viewport, images, lastPosition, focusedItem, targetPosition, targetZoom, dragVars, wasRotatingState,
                 wasRotating, allowInteraction, interactionResetTimer, isMobile,
                 mediaStates, sceneRotation, sceneViewport, listeners, interactionEnabled,
                 interactionTimer, staleTimeouts, envVars>>

\* The numbers of a vector the frame callback reads.  A base position has the numbers
\* the layout gave it, which the model of the frames is not given: there the targets
\* are points.
Coords(v) ==
  CASE v.kind = "origin" -> [x |-> 0, y |-> 0]
    [] v.kind = "point"  -> [x |-> v.x, y |-> v.y]

\* camera.position, and the vector the frame callback steers it to.
CameraPosition == [x |-> Coords(cameraXY).x, y |-> Coords(cameraXY).y, z |-> cameraZ]
TargetVector ==
  [x |-> Coords(targetPosition).x, y |-> Coords(targetPosition).y, z |-> Unit * targetZoom]

\* As LerpAxis, with alpha 1: the coordinate jumps to its target.
LerpAxis_jump(c, t) == t

\* One coordinate of Vector3.lerp(target, 0.1): c + (t - c) * 0.1, the product cut to
\* the resolution.
LerpAxis(c, t) ==
  c + (IF t >= c THEN (t - c) \div 10 ELSE -((c - t) \div 10))

Lerp(v, w) ==
  [x |-> LerpAxis(v.x, w.x), y |-> LerpAxis(v.y, w.y), z |-> LerpAxis(v.z, w.z)]

\* The square of Vector3.distanceTo, and the square of the 0.01 it is compared with.
DistanceSq(v, w) ==
  (v.x - w.x) * (v.x - w.x) + (v.y - w.y) * (v.y - w.y) + (v.z - w.z) * (v.z - w.z)
EpsilonSq == (Unit \div 100) * (Unit \div 100)

\* One rendered frame: the useFrame callback.
FrameStep ==
  IF ~animating THEN UNCHANGED vars
  ELSE
    LET position == Lerp(CameraPosition, TargetVector)
    IN  /\ cameraXY' = Point(position.x, position.y)
        /\ cameraZ' = position.z
        /\ animating' = ~(DistanceSq(position, TargetVector) < EpsilonSq)
        /\ UNCHANGED <<textPng, part001, sketch, viewport, images, lastPosition, focusedItem, targetPosition, targetZoom, dragVars,
                       wasRotatingState, wasRotating, allowInteraction,
                       interactionResetTimer, isMobile, mediaStates, sceneRotation,
                       sceneViewport, listeners, interactionEnabled, interactionTimer, staleTimeouts, envVars>>

(* ------------------------- text-png.tsx events ------------------------- *)
\* One pointerdown event of the variant, as far as the strips go: both strips'
\* listeners.  p is the panel the click will land on (or NoPanel), imageHit and
\* textHit whether the ray crosses a mesh of the image and of the text strip.
TextPngPointerDown(p, imageHit, textHit) ==
  /\ p.layer = "front" => imageHit
  /\ p.layer = "back" => textHit
  /\ p = NoPanel => ~imageHit /\ ~textHit
  /\ textPng' =
       [textPng EXCEPT
          !.strip = [s \in Strips |->
                       TextPngStripPointerDown(s, textPng.strip[s],
                                               IF s = "image" THEN imageHit ELSE textHit,
                                               viewportLandscape)],
          !.hit = p]
  /\ UNCHANGED finalVars

\* The click that follows on panel textPng.hit: the mesh's onClick, handleMediaClick
\* of its strip and, for a front mesh, onRotate(i, 0, 0, basePosition).
TextPngClick ==
  /\ textPng.hit # NoPanel
  /\ LET p == textPng.hit
         s == StripOf(p.layer)
     IN  /\ textPng' =
              [textPng EXCEPT
                 !.strip[s] = TextPngMediaClick(textPng.strip[s], p.index,
                                                TextPngBasePosition(p), p.layer = "back",
                                                viewportLandscape),
                 !.hit = NoPanel]
         /\ mediaStates' = MeshClickStates(p)
  /\ UNCHANGED <<part001, sketch, focusVars, dragVars, wasRotatingState, wasRotating, allowInteraction,
                 interactionResetTimer, isMobile, sceneRotation, cameraZ, cameraXY,
                 sceneViewport, listeners, interactionEnabled, interactionTimer,
                 staleTimeouts, envVars, lastPosition, viewport, images>>

\* Whether distanceTo(target) < 0.01.
TextPngArrived(position, target) ==
  /\ Abs(position.x - target.x) < Unit \div 100
  /\ Abs(position.y - target.y) < Unit \div 100
  /\ Abs(position.z - target.z) < Unit \div 100
  /\ DistanceSq(position, target) < EpsilonSq

TextPngTarget(st) ==
  [x |-> st.targetPosition.x, y |-> st.targetPosition.y, z |-> Unit * st.targetZoom]

\* One strip's useFrame callback on the camera as it finds it.
TextPngStripFrame(st, camera) ==
  IF st.animating
    THEN LET position == Lerp(camera, TextPngTarget(st))
         IN  [st |-> [st EXCEPT !.animating =
                                   ~TextPngArrived(position, TextPngTarget(st))],
              camera |-> position]
    ELSE [st |-> st, camera |-> camera]

\* One rendered frame of the variant: the image strip's callback, then the text
\* strip's, in the order the strips are mounted.
TextPngFrameResult ==
  LET image == TextPngStripFrame(textPng.strip["image"], textPng.camera)
      text == TextPngStripFrame(textPng.strip["text"], image.camera)
  IN  [strip |-> [s \in Strips |-> IF s = "image" THEN image.st ELSE text.st],
       camera |-> text.camera, hit |-> textPng.hit]

TextPngFrame ==
  /\ textPng' = TextPngFrameResult
  /\ UNCHANGED finalVars

(* -------------------- src/unnamed/part_001: events ---------------------- *)
\* Scene.handlePointerDown; onCube: the ray hits a mesh that is not the background.
Part001PointerDown(onCube) ==
  /\ ~part001.isDragging
  /\ part001' = [part001 EXCEPT !.isDragging = TRUE, !.wasRotating = FALSE,
                                !.allowImageInteraction = TRUE, !.activeCube = onCube]
  /\ UNCHANGED part001Vars

\* Scene.handlePointerMove, the pointer having moved by (dx, dy) pixels since the
\* event before it.
Part001PointerMove(dx, dy) ==
  /\ part001' =
       IF ~part001.isDragging THEN part001
       ELSE IF part001.activeCube
         THEN [part001 EXCEPT !.cubeRotation = [x |-> @.x + dy, y |-> @.y + dx]]
         ELSE [part001 EXCEPT !.sceneRotation = [x |-> @.x + dy, y |-> @.y + dx],
                              !.wasRotating = TRUE,
                              !.allowImageInteraction = FALSE]
  /\ UNCHANGED part001Vars

\* Scene.handlePointerUp.
Part001PointerUp ==
  /\ part001.isDragging
  /\ part001' = [part001 EXCEPT
                   !.timeouts = Part001PointerUpTimeouts(part001.wasRotating, @),
                   !.isDragging = FALSE, !.activeCube = FALSE]
  /\ UNCHANGED part001Vars

\* The oldest timeout is due and its callback runs: wasRotating.current = false.
Part001Timeout ==
  /\ part001.timeouts # <<>>
  /\ Head(part001.timeouts) = 0
  /\ part001' = [part001 EXCEPT !.wasRotating = FALSE, !.timeouts = Tail(@)]
  /\ UNCHANGED part001Vars

\* Time passes: by a step, or up to the next timeout that is due, whichever is first.
Part001Tick(step) ==
  /\ part001.timeouts # <<>>
  /\ Head(part001.timeouts) > 0
  /\ LET d == Min(step, Head(part001.timeouts))
     IN  part001' = [part001 EXCEPT
                       !.timeouts = [k \in 1 .. Len(@) |-> @[k] - d]]
  /\ UNCHANGED part001Vars

(* ------------------- src/app/routes/cassandra.tsx: events --------------- *)
\* Component k mounts, the one before it having unmounted: new refs, and the effect
\* calls setupSketch, which awaits the imports.
SketchMount(k) ==
  /\ k > 1
  /\ sketch.component[k].stage = "none"
  /\ sketch.component[k - 1].stage = "unmounted"
  /\ sketch' = [sketch EXCEPT !.component[k] = SketchComponent("mounted")]
  /\ UNCHANGED sketchVars

\* The imports of component k's setupSketch resolve: p5Instance = new p5(sketch).
\* Nothing in setupSketch asks whether the component is still mounted.
SketchImportResolves(k) ==
  /\ sketch.component[k].stage # "none"
  /\ sketch.component[k].import = "pending"
  /\ sketch' = [sketch EXCEPT !.component[k].import = "resolved",
                              !.component[k].p5Instance = "live"]
  /\ UNCHANGED sketchVars

\* An import rejects: the catch logs the error and p5Instance stays null.
SketchImportFails(k) ==
  /\ sketch.component[k].stage # "none"
  /\ sketch.component[k].import = "pending"
  /\ sketch' = [sketch EXCEPT !.component[k].import = "failed"]
  /\ UNCHANGED sketchVars

\* p5 calls p.setup of component k's instance (an instance that has been removed is
\* taken not to be set up any more): the intervals intervalIds.current holds are
\* cleared, and five are set and stored.
SketchSetup(k) ==
  /\ sketch.component[k].p5Instance = "live"
  /\ ~sketch.component[k].setup
  /\ LET ids == {<<k, div>> : div \in SketchDivs}
     IN  sketch' = [sketch EXCEPT
                      !.component[k].setup = TRUE,
                      !.component[k].intervalIds = ids,
                      !.active = (@ \ sketch.component[k].intervalIds) \cup ids]
  /\ UNCHANGED sketchVars

\* An active interval's callback runs: generate(div, source).
SketchInterval(id) ==
  /\ id \in sketch.active
  /\ sketch' = [sketch EXCEPT !.generated = @ \cup {id}]
  /\ UNCHANGED sketchVars

\* Component k unmounts: the effect's cleanup clears the intervals of
\* intervalIds.current, empties it, and removes p5Instance if there is one.
SketchUnmount(k) ==
  /\ sketch.component[k].stage = "mounted"
  /\ sketch' = [sketch EXCEPT
                  !.component[k].stage = "unmounted",
                  !.component[k].intervalIds = {},
                  !.component[k].p5Instance = IF @ = "null" THEN "null" ELSE "removed",
                  !.active = @ \ sketch.component[k].intervalIds]
  /\ UNCHANGED sketchVars

(* ------------------------------ behaviours ----------------------------- *)
\* What bounds the pointer-moves and the wheel events offered.
InRot(r, maxRot) == Abs(r.x) <= maxRot /\ Abs(r.y) <= maxRot

MoveWithinBounds(maxRot) ==
  /\ isDragging
  /\ dragDistance'.x <= MaxDrag /\ dragDistance'.y <= MaxDragY
  /\ InRot(sceneRotation', maxRot)
  /\ \A i \in Items : InRot(mediaStates'[i].rotation, maxRot)

WheelWithinBounds == \E z \in ZoomPresets : Abs(cameraZ' - z) <= MaxWheel * ZoomSpeed

\* The focus machine: every event handler but the wheel's, the pointer on any of
\* HitPanels or on the background, dragged (6 px along x a move) on the background and
\* on back panels only, the clock in steps of 150 ms.  The rendered frames, which read
\* and write nothing an event handler of this machine reads, are left to SpecWheel.
FocusDeltas == {<<6, 0>>}
FocusTicks == {150}

Next ==
  \/ \E p \in HitPanels \cup {NoPanel}, frontAlso \in BOOLEAN : PointerDown(p, frontAlso)
  \/ \E d \in FocusDeltas :
       activePanel.layer # "front" /\ PointerMove(d[1], d[2]) /\ MoveWithinBounds(MaxRot)
  \/ PointerUp
  \/ \E onPanel \in BOOLEAN : Click(onPanel)
  \/ DoubleClick
  \/ \E t \in TimerIds : TimerFire(t)
  \/ \E step \in FocusTicks : Tick(step)
  \/ ViewportChange
  \/ HandleResize

Spec == Init /\ [][Next]_vars

\* The click classifier: the pointer on the first back panel or on the background,
\* moved a pixel at a time along x or y, the clock in steps around the 200 ms of a
\* click; no wheel, the window is not resized.
GesturePanels == {Panel(0, "back"), NoPanel}
GestureDeltas == {<<1, 0>>, <<0, 1>>}
GestureTicks == {199, 200, 201}

NextGesture ==
  \/ \E p \in GesturePanels : PointerDown(p, FALSE)
  \/ \E d \in GestureDeltas : PointerMove(d[1], d[2]) /\ MoveWithinBounds(MaxGestureRot)
  \/ PointerUp
  \/ \E onPanel \in BOOLEAN : Click(onPanel)
  \/ DoubleClick
  \/ \E t \in TimerIds : TimerFire(t)
  \/ \E step \in GestureTicks : Tick(step)

SpecGesture == Init /\ [][NextGesture]_vars

\* The wheel: the pointer on the first front panel or on the background, dragged on
\* either (6 px along x a move), the clock in steps of 150 ms, wheel events one tick
\* at a time; the window is not resized.
WheelPanels == {Panel(0, "front"), NoPanel}

NextWheel ==
  \/ \E p \in WheelPanels : PointerDown(p, FALSE)
  \/ \E d \in FocusDeltas : PointerMove(d[1], d[2]) /\ MoveWithinBounds(MaxRot)
  \/ PointerUp
  \/ \E onPanel \in BOOLEAN : Click(onPanel)
  \/ DoubleClick
  \/ \E t \in TimerIds : TimerFire(t)
  \/ \E step \in FocusTicks : Tick(step)
  \/ \E deltaYPositive \in BOOLEAN : Wheel(deltaYPositive) /\ WheelWithinBounds
  \/ Frame

SpecWheel == Init /\ [][NextWheel]_vars

\* The pointer model: gestures on the first front panel, the first back panel and the
\* background, the pointer moved 4 px a move with the button down and with it up,
\* the clock in steps of 150 ms.
PointerPanels == {Panel(0, "front"), Panel(0, "back"), NoPanel}
PointerDeltas == {<<4, 0>>, <<0, 4>>}

PointerWithinBounds ==
  /\ Abs(lastPosition'.x) <= MaxHover /\ Abs(lastPosition'.y) <= MaxHover
  /\ dragDistance'.x <= MaxPointerDrag /\ dragDistance'.y <= MaxPointerDrag
  /\ dragDistance'.x = 0 \/ dragDistance'.y = 0
  /\ InRot(sceneRotation', MaxHover)
  /\ \A i \in Items : InRot(mediaStates'[i].rotation, MaxHover)

NextPointer ==
  \/ \E p \in PointerPanels : PointerDown(p, FALSE)
  \/ \E d \in PointerDeltas : PointerMove(d[1], d[2]) /\ PointerWithinBounds
  \/ PointerUp
  \/ \E t \in TimerIds : TimerFire(t)
  \/ \E step \in FocusTicks : Tick(step)

SpecPointer == Init /\ [][NextPointer]_vars

\* The layout model: the strips laid out for up to MaxItems images (square ones, or
\* tall, square and wide ones in turn) in four viewports, on either kind of device,
\* while the first front panel and the background are pressed, dragged, released
\* and clicked and the clock runs, which changes the focus, the rotations, the
\* gesture state and the timers the strips render with.
LayoutAspects == <<R(1, 2), RInt(1), R(3, 2)>>
LayoutImages ==
  {[j \in 1 .. n |-> LayoutAspects[((j + k) % 3) + 1]] : n \in 1 .. MaxItems, k \in 0 .. 2}
    \cup {[j \in 1 .. n |-> RInt(1)] : n \in 1 .. MaxItems}
LayoutViewports == {[width |-> 16, height |-> 9], [width |-> 4, height |-> 3],
                    [width |-> 9, height |-> 16], [width |-> 8, height |-> 8]}

InitLayout ==
  /\ focusedItem = NoPanel
  /\ targetPosition = Origin
  /\ targetZoom = InitialTargetZoom
  /\ animating = FALSE
  /\ isDragging = FALSE
  /\ wasRotatingState = FALSE
  /\ wasRotating = FALSE
  /\ elapsed = MaxElapsed
  /\ lastPosition = AtPointer
  /\ textPng = TextPngInitial
  /\ part001 = Part001Initial
  /\ sketch = SketchInitial
  /\ images \in LayoutImages
  /\ dragDistance = [x |-> 0, y |-> 0]
  /\ activePanel = NoPanel
  /\ allowInteraction = TRUE
  /\ interactionResetTimer = NoTimer
  /\ isMobile \in BOOLEAN
  /\ mediaStates = [i \in Items |-> InitialMediaState]
  /\ sceneRotation = [x |-> 0, y |-> 0, z |-> 0]
  /\ cameraZ = InitialCameraZ * Unit
  /\ cameraXY = Origin
  /\ viewport \in LayoutViewports
  /\ viewportLandscape = (viewport.width > viewport.height)
  /\ sceneViewport = viewportLandscape
  /\ listeners = SceneListenerSetup \cup ResizeListenerSetup \cup StripListenerSetup
  /\ interactionEnabled = [s \in Strips |-> TRUE]
  /\ interactionTimer = [s \in Strips |-> NoTimer]
  /\ staleTimeouts = [t \in TimerIds |-> {}]
  /\ gesture = "idle"
  /\ initialHit = NoPanel
  /\ clicks = 0
  /\ gestureStart = NoGesture

NextLayout ==
  \/ \E p \in WheelPanels : PointerDown(p, FALSE)
  \/ \E d \in FocusDeltas : PointerMove(d[1], d[2]) /\ MoveWithinBounds(MaxRot)
  \/ PointerUp
  \/ Click(TRUE)
  \/ \E t \in TimerIds : TimerFire(t)
  \/ \E step \in FocusTicks : Tick(step)

SpecLayout == InitLayout /\ [][NextLayout]_vars

\* The pointer model with the clock running on: time passes and due timeouts fire
\* whenever they can.
PointerEvent ==
  \/ \E p \in PointerPanels : PointerDown(p, FALSE)
  \/ \E d \in PointerDeltas : PointerMove(d[1], d[2])
  \/ PointerUp

SpecPointerLive ==
  /\ SpecPointer
  /\ WF_vars(\E t \in TimerIds : TimerFire(t))
  /\ WF_vars(\E step \in FocusTicks : Tick(step))

\* The text-png.tsx model: presses on the first front panel, the first back panel
\* and the background, each while the camera rests, the click that follows a
\* press on a panel, and the rendered frames.
TextPngPanels == {Panel(0, "front"), Panel(0, "back"), NoPanel}

TextPngInput ==
  \/ /\ TextPngFrameResult.camera = textPng.camera
     /\ textPng.hit = NoPanel
     /\ \E p \in TextPngPanels, imageHit, textHit \in BOOLEAN :
          TextPngPointerDown(p, imageHit, textHit)
  \/ TextPngClick

NextTextPng ==
  \/ TextPngInput
  \/ TextPngFrame

SpecTextPng == Init /\ [][NextTextPng]_vars

\* The render loop calls the frame callbacks again and again.
SpecTextPngLive == SpecTextPng /\ WF_vars(TextPngFrame)

\* part_001's Scene: presses on a cube and on the background, moves of a pixel along
\* either axis, and the clock in steps of 50 ms while a timeout is pending.
Part001Deltas == {<<1, 0>>, <<0, 1>>}

NextPart001 ==
  \/ \E onCube \in BOOLEAN : Part001PointerDown(onCube)
  \/ \E d \in Part001Deltas :
       /\ Part001PointerMove(d[1], d[2])
       /\ part001.isDragging
       /\ InRot(part001'.sceneRotation, MaxTurn) /\ InRot(part001'.cubeRotation, MaxTurn)
  \/ Part001PointerUp /\ Len(part001'.timeouts) <= MaxPending
  \/ Part001Timeout
  \/ Part001Tick(50)

SpecPart001 == Init /\ [][NextPart001]_vars

\* P5Sketch: MaxMounts components one after the other, each import resolving or
\* failing at any time after its mount, and the callbacks of the active intervals.
NextSketch ==
  \/ \E k \in 1 .. MaxMounts :
       \/ SketchMount(k)
       \/ SketchImportResolves(k)
       \/ SketchImportFails(k)
       \/ SketchSetup(k)
       \/ SketchUnmount(k)
  \/ \E k \in 1 .. MaxMounts, div \in SketchDivs : SketchInterval(<<k, div>>)

SpecSketch == Init /\ [][NextSketch]_vars

\* The focus model: presses and clicks on the first front panel, the first two back
\* panels and the background, every press released at once, and the frame at which
\* the camera arrives.
FocusPanels == {Panel(0, "front"), Panel(0, "back"), Panel(1, "back"), NoPanel}

NextFocus ==
  \/ \E p \in FocusPanels, frontAlso \in BOOLEAN : PointerDown(p, frontAlso)
  \/ PointerUp
  \/ \E onPanel \in BOOLEAN : Click(onPanel)
  \/ DoubleClick
  \/ Frame

SpecFocus == Init /\ [][NextFocus]_vars

\* The zoom model: the wheel model with the viewport changing its orientation.
NextZoom ==
  \/ NextWheel
  \/ ViewportChange

SpecZoom == Init /\ [][NextZoom]_vars

\* The unmount model: events reach the handlers whose listeners are registered, time
\* passes, and at any moment Scene and the strips unmount.
Registered(component, type) == Listener(component, type) \in listeners

NextUnmount ==
  \/ /\ \A c \in {"scene"} \cup Strips : Registered(c, "pointerdown")
     /\ \E p \in WheelPanels : PointerDown(p, FALSE)
  \/ /\ Registered("scene", "pointermove")
     /\ \E d \in FocusDeltas : PointerMove(d[1], d[2]) /\ MoveWithinBounds(MaxRot)
  \/ Registered("scene", "pointerup") /\ PointerUp
  \/ Registered("scene", "click") /\ \E onPanel \in BOOLEAN : Click(onPanel)
  \/ Registered("scene", "dblclick") /\ DoubleClick
  \/ /\ Registered("scene", "wheel")
     /\ \E deltaYPositive \in BOOLEAN : Wheel(deltaYPositive) /\ WheelWithinBounds
  \/ Registered("scene", "resize") /\ HandleResize
  \/ \E t \in TimerIds : TimerFire(t)
  \/ \E step \in FocusTicks : Tick(step)
  \/ Unmount

SpecUnmount == Init /\ [][NextUnmount]_vars

\* The rotation model: the pointer on the first front panel, on the first back panel
\* or on the background, moved a pixel at a time to and fro along x or y (along both
\* in one gesture only up to MaxDragY px of y); the clock stands still.
RotatePanels == {Panel(0, "front"), Panel(0, "back"), NoPanel}
RotateDeltas == {<<1, 0>>, <<-1, 0>>, <<0, 1>>, <<0, -1>>}

RotateWithinBounds ==
  /\ isDragging
  /\ dragDistance'.x <= MaxRotateDrag /\ dragDistance'.y <= MaxRotateDrag
  /\ dragDistance'.x = 0 \/ dragDistance'.y <= MaxDragY
  /\ InRot(sceneRotation', MaxGestureRot)
  /\ \A i \in Items : InRot(mediaStates'[i].rotation, MaxGestureRot)

NextRotate ==
  \/ \E p \in RotatePanels : PointerDown(p, FALSE)
  \/ \E d \in RotateDeltas : PointerMove(d[1], d[2]) /\ RotateWithinBounds
  \/ PointerUp

SpecRotate == Init /\ [][NextRotate]_vars

\* The frame model: the camera at its first position (0, 0, 5) as a focus change has
\* just set a target and started the animation; frames are rendered one by one, and
\* once the camera rests, clicks and double-clicks on the background start the next
\* animation (to the overview).
FrameTargets == {Point(2 * Unit, 3 * Unit), Point(-Unit, 0)}
FrameZooms == {InitialTargetZoom, ZOOM_LEVELS.frontLayer.portrait}

InitFrame ==
  /\ focusedItem = NoPanel
  /\ targetPosition \in FrameTargets
  /\ targetZoom \in FrameZooms
  /\ animating = TRUE
  /\ isDragging = FALSE
  /\ wasRotatingState = FALSE
  /\ wasRotating = FALSE
  /\ elapsed = MaxElapsed
  /\ lastPosition = AtPointer
  /\ textPng = TextPngInitial
  /\ part001 = Part001Initial
  /\ sketch = SketchInitial
  /\ images = DefaultImages
  /\ dragDistance = [x |-> 0, y |-> 0]
  /\ activePanel = NoPanel
  /\ allowInteraction = TRUE
  /\ interactionResetTimer = NoTimer
  /\ isMobile \in BOOLEAN
  /\ mediaStates = [i \in Items |-> InitialMediaState]
  /\ sceneRotation = [x |-> 0, y |-> 0, z |-> 0]
  /\ cameraZ = InitialCameraZ * Unit
  /\ cameraXY = Origin
  /\ viewportLandscape \in BOOLEAN
  /\ viewport = DefaultViewport(viewportLandscape)
  /\ sceneViewport = viewportLandscape
  /\ listeners = SceneListenerSetup \cup ResizeListenerSetup \cup StripListenerSetup
  /\ interactionEnabled = [s \in Strips |-> TRUE]
  /\ interactionTimer = [s \in Strips |-> NoTimer]
  /\ staleTimeouts = [t \in TimerIds |-> {}]
  /\ gesture = "idle"
  /\ initialHit = NoPanel
  /\ clicks = 0
  /\ gestureStart = NoGesture

NextFrame ==
  \/ FrameStep
  \/ /\ ~animating
     /\ \/ PointerDown(NoPanel, FALSE)
        \/ PointerUp
        \/ Click(FALSE)
        \/ DoubleClick

SpecFrame == InitFrame /\ [][NextFrame]_vars

\* The render loop calls the frame callback again and again.
SpecFrameLive == SpecFrame /\ WF_vars(FrameStep)

\* The accumulation model: handleMediaRotation applied again and again to the first
\* item, unturned at first, by one drag on its front panel in steps of 10 px
\* (0.1 rad) along x or along y.
AccumulateDeltas == {<<10, 0>>, <<0, 10>>}

NextAccumulate ==
  \/ /\ mediaStates[0].rotation = [x |-> 0, y |-> 0]
     /\ PointerDown(Panel(0, "front"), FALSE)
  \/ \E d \in AccumulateDeltas :
       /\ isDragging
       /\ PointerMove(d[1], d[2])
       /\ dragDistance'.x <= MaxAccumulate /\ dragDistance'.y <= MaxAccumulate
  \/ PointerUp

SpecAccumulate == Init /\ [][NextAccumulate]_vars

(* -------------------------------- claims ------------------------------- *)
\* C1 (focus toggle): a complete click gesture on the panel that was focused when
\* the gesture began (the second gesture of the pair, the first having focused the
\* panel from Unfocused) leaves FocusState {null, null}, targetPosition at the origin
\* and targetZoom at the overview level of the current orientation, for either layer.
\* (The gesture is complete at its click event: the pointer-up was classified as a
\* click and the mesh's onClick runs.)
C1_SecondClickUnfocuses ==
  [][(/\ Click(TRUE)
      /\ IsClick(elapsed, dragDistance, isMobile)
      /\ gestureStart.focusedItem = initialHit)
       => /\ focusedItem' = NoPanel
          /\ targetPosition' = Origin
          /\ targetZoom' = ZOOM_LEVELS.overview[Orientation(viewportLandscape)]]_vars

\* C2 (direct re-target): during a gesture on a panel other than the one focused when
\* it began, FocusState is never {null, null} and the target is never the overview's;
\* the gesture's click leaves that panel focused with its base position as the target.
C2_NoIntermediateOverview ==
  (/\ gesture \in {"pressed", "released"}
   /\ gestureStart.focusedItem # NoPanel
   /\ initialHit # NoPanel
   /\ initialHit # gestureStart.focusedItem)
    => (focusedItem # NoPanel /\ targetPosition # Origin)

\* C3 (click suppression): a pointer-down on a panel that arrives during the cooldown
\* after a rotating non-click pointer-up, and the panel click that follows it, leave
\* FocusState, targetPosition and targetZoom as they were.
C3_ClickSuppressedInCooldown ==
  [][(\/ (\E p \in Panels, frontAlso \in BOOLEAN : PointerDown(p, frontAlso))
           /\ wasRotatingState
      \/ Click(TRUE) /\ gestureStart.cooldown)
       => UNCHANGED <<focusedItem, targetPosition, targetZoom>>]_vars

\* C4 (cooldown): the pointer-up of a gesture that is not a click and finds
\* wasRotating true leaves the cooldown timer pending with its whole 300 ms to run.
C4_CooldownStartsAtPointerUp ==
  [][(PointerUp /\ ~IsClick(elapsed, dragDistance, isMobile) /\ wasRotating)
       => /\ ~allowInteraction'
          /\ interactionResetTimer' = 300]_vars

\* C5 (wheel during a rotation drag): while the pointer that has rotated the scene in
\* this gesture is still down, a wheel event leaves camera z unchanged.
C5_NoWheelWhileRotationDrag ==
  [][(/\ gesture = "pressed"
      /\ activePanel = NoPanel
      /\ RotatesScene(dragDistance, isMobile)
      /\ \E deltaYPositive \in BOOLEAN : Wheel(deltaYPositive))
       => cameraZ' = cameraZ]_vars

\* C6 (FocusState invariant): FocusState is {null, null} or {i, L} with i in 0..4 and
\* L front or back; its index is null exactly when its layer is.
C6_FocusStateWellFormed ==
  /\ \/ focusedItem = [index |-> NullIndex, layer |-> "null"]
     \/ focusedItem.index \in 0 .. 4 /\ focusedItem.layer \in {"front", "back"}
  /\ focusedItem.index = NullIndex <=> focusedItem.layer = "null"

C6_Witness ==
  /\ focusedItem = Panel(1, "back")
  /\ gesture = "released"
  /\ gestureStart.focusedItem = Panel(1, "back")
  /\ initialHit = Panel(0, "front")

\* C7 (focusing sets the target): a click on a panel that is not the focused one sets
\* targetPosition to the panel's base position, targetZoom to the level of its layer
\* for the viewport's orientation, FocusState to the panel and animating to true.
C7_FocusSetsTarget ==
  [][(Click(TRUE) /\ initialHit # focusedItem)
       => /\ targetPosition' = [kind |-> "base", index |-> initialHit.index,
                                layer |-> initialHit.layer]
          /\ targetZoom' = IF initialHit.layer = "front"
                             THEN (IF viewportLandscape THEN 4 ELSE 2)
                             ELSE (IF viewportLandscape THEN 6 ELSE 2)
          /\ focusedItem' = initialHit
          /\ animating']_vars

C7_Witness ==
  /\ gesture = "idle"
  /\ focusedItem = Panel(0, "back")
  /\ targetPosition = BasePosition(Panel(0, "back"))
  /\ targetZoom = 6
  /\ viewportLandscape
  /\ animating

\* C8 (background click): a pointer-down that hits no panel resets FocusState, the
\* target position and the target zoom when an item is focused and the strip's
\* interactionEnabled is true; otherwise it leaves FocusState, targetPosition,
\* targetZoom and animating unchanged.  (No state reached here has an item focused
\* while the strip is disabled: a panel pointer-down, which every focusing click
\* follows, re-enables the strips, and the background pointer-down a rotation needs
\* resets the focus first.  The disabled branch is met with FocusState Unfocused.)
C8_BackgroundPointerDown ==
  [][PointerDown(NoPanel, FALSE)
       => IF focusedItem # NoPanel /\ interactionEnabled["image"]
            THEN /\ focusedItem' = NoPanel
                 /\ targetPosition' = Origin
                 /\ targetZoom' = ZOOM_LEVELS.overview[Orientation(viewportLandscape)]
            ELSE UNCHANGED <<focusedItem, targetPosition, targetZoom, animating>>]_vars

C8_Witness ==
  /\ gesture = "pressed"
  /\ initialHit = NoPanel
  /\ gestureStart.focusedItem # NoPanel
  /\ focusedItem = NoPanel
  /\ targetPosition = Origin

\* C9 (double-click reset): a dblclick leaves the scene unrotated, FocusState
\* {null, null}, targetPosition at the origin, targetZoom at the overview level of the
\* orientation, animating true, wasRotating false and allowInteraction true.
C9_DoubleClickResets ==
  [][DoubleClick
       => /\ sceneRotation' = [x |-> 0, y |-> 0, z |-> 0]
          /\ focusedItem' = NoPanel
          /\ targetPosition' = Origin
          /\ targetZoom' = ZOOM_LEVELS.overview[Orientation(viewportLandscape)]
          /\ animating'
          /\ ~wasRotating'
          /\ allowInteraction']_vars

\* C10 (click classification): a pointer-up is handled as a click exactly when less
\* than 200 ms have passed since the pointer-down and dragDistance.x + dragDistance.y
\* is below 10 px (desktop) or 15 px (mobile): then rotation is off and interaction
\* allowed; otherwise a rotating gesture stays rotating and nothing else changes.
C10_ClickBoundary ==
  [][PointerUp
       => IF elapsed < 200 /\ dragDistance.x + dragDistance.y < (IF isMobile THEN 15 ELSE 10)
            THEN ~wasRotating' /\ ~wasRotatingState' /\ allowInteraction'
            ELSE /\ wasRotating' = wasRotating
                 /\ allowInteraction' = allowInteraction
                 /\ wasRotatingState' = (wasRotatingState \/ wasRotating)]_vars

\* A press of 199 ms and 8 + 1 px on a panel, begun in the cooldown of a rotation
\* (interaction not allowed), has been released on desktop and taken as a click.
C10_Witness ==
  /\ gesture = "released"
  /\ initialHit = Panel(0, "back")
  /\ gestureStart.cooldown
  /\ ~isMobile
  /\ elapsed = 199
  /\ dragDistance = [x |-> 8, y |-> 1]
  /\ allowInteraction
  /\ ~wasRotating

\* C11 (scene rotation threshold): in a gesture with no active panel, a pointer-move
\* that brings dragDistance.x or dragDistance.y above the threshold (5 px on
\* desktop, 2 px on mobile) adds its per-axis delta to the scene rotation and sets
\* wasRotating = true and allowInteraction = false; a pointer-move that leaves both
\* distances at or below the threshold leaves the scene rotation, wasRotating and
\* allowInteraction unchanged.
C11_SceneRotationThreshold ==
  [][\A dx, dy \in -1..1 :
       (isDragging /\ activePanel = NoPanel /\ PointerMove(dx, dy))
         => IF \/ dragDistance'.x > (IF isMobile THEN 2 ELSE 5)
               \/ dragDistance'.y > (IF isMobile THEN 2 ELSE 5)
              THEN /\ sceneRotation'.y = sceneRotation.y + dx
                   /\ sceneRotation'.x = sceneRotation.x + dy
                   /\ sceneRotation'.z = sceneRotation.z
                   /\ wasRotating' /\ wasRotatingState'
                   /\ ~allowInteraction'
              ELSE /\ sceneRotation' = sceneRotation
                   /\ wasRotating' = wasRotating
                   /\ allowInteraction' = allowInteraction]_vars

\* On desktop the sixth pixel of a vertical drag over the background has turned the
\* scene about its x axis.
C11_Witness ==
  /\ gesture = "pressed" /\ activePanel = NoPanel /\ ~isMobile
  /\ dragDistance = [x |-> 0, y |-> 6]
  /\ sceneRotation.x # 0
  /\ wasRotating /\ ~allowInteraction

\* C12 (panel rotation never triggers scene rotation): in a gesture whose pointer-down
\* hit front panel i, every pointer-move adds its pixel delta (0.01 rad per pixel) to
\* item i's rotation angles and to no other item's, and while the pointer stays down
\* no step changes the scene rotation, wasRotating or allowInteraction, however far
\* the pointer has moved.
C12_PanelDragRotatesItemOnly ==
  [][(gesture = "pressed" /\ activePanel.layer = "front" /\ gesture' = "pressed")
       => /\ sceneRotation' = sceneRotation
          /\ wasRotating' = wasRotating
          /\ allowInteraction' = allowInteraction
          /\ \A j \in Items \ {activePanel.index} :
                mediaStates'[j].rotation = mediaStates[j].rotation
          /\ \A dx, dy \in -6..6 :
                PointerMove(dx, dy)
                  => mediaStates'[activePanel.index].rotation =
                       [x |-> mediaStates[activePanel.index].rotation.x + dy,
                        y |-> mediaStates[activePanel.index].rotation.y + dx]]_vars

\* On desktop a drag on the first front panel has gone 6 px along x, past the scene's
\* threshold, and 1 px along y: the item is turned, the scene is not.
C12_Witness ==
  /\ gesture = "pressed" /\ activePanel = Panel(0, "front") /\ ~isMobile
  /\ dragDistance = [x |-> 6, y |-> 1]
  /\ mediaStates[0].rotation = [x |-> 1, y |-> 0]
  /\ sceneRotation = [x |-> 0, y |-> 0, z |-> 0]
  /\ ~wasRotating /\ allowInteraction

\* C13 (back-layer panels receive no direct rotation): in a gesture whose pointer-down
\* hit a back-layer panel no pointer-move changes any item's rotation or the scene
\* rotation, and every back-layer panel is rendered with rotation (0, 0, 0) at all
\* times.
C13_BackPanelsNotRotated ==
  /\ [](\A j \in Items : RenderedRotation(Panel(j, "back")) = [x |-> 0, y |-> 0, z |-> 0])
  /\ [][\A dx, dy \in -1..1 :
          (isDragging /\ activePanel.layer = "back" /\ PointerMove(dx, dy))
            => /\ \A j \in Items : mediaStates'[j].rotation = mediaStates[j].rotation
               /\ sceneRotation' = sceneRotation]_vars

\* On desktop a drag on the first back panel has gone 6 px along y, past the scene's
\* threshold, after the item that panel shows (item 2) was left untouched and item 0,
\* shown by the second back panel, was turned on the front layer.
C13_Witness ==
  /\ gesture = "pressed" /\ activePanel = Panel(0, "back") /\ ~isMobile
  /\ dragDistance = [x |-> 0, y |-> 6]
  /\ backLayerStates[1].rotation = [x |-> 1, y |-> 1]
  /\ RenderedRotation(Panel(0, "front")) = [x |-> 1, y |-> 1, z |-> 0]
  /\ sceneRotation = [x |-> 0, y |-> 0, z |-> 0]

\* C14 (rotation accumulates without loss): handleMediaRotation adds deltaX to the
\* item's horizontal angle and deltaY to its vertical angle, with no clamping and no
\* wrap-around: k applications of a delta d to an unturned item leave k*d (ten of
\* 0.1 rad leave 1.0 rad), also beyond 2*pi.  Angles are counted in hundredths of a
\* radian, the turn of one pixel; the drag distance of the one gesture counts k*d.
C14_RotationAccumulates ==
  mediaStates[0].rotation = [x |-> dragDistance.y, y |-> dragDistance.x]

\* Seventy applications of 0.1 rad along x and ten along y: 7.0 rad and 1.0 rad.
C14_Witness ==
  /\ activePanel = Panel(0, "front")
  /\ dragDistance = [x |-> 700, y |-> 100]
  /\ mediaStates[0].rotation = [x |-> 100, y |-> 700]

\* C15 (displacement formula): after every handleMediaRotation call on item i with
\* base position b, mediaStates[i].position is
\* (b.x + sin(rotation.y)*3, b.y + sin(rotation.x)*3, -1), rotation being the item's
\* new rotation: the x offset follows the angle about y, the y offset the angle
\* about x, the amplitude is 3 and z is fixed at -1.
C15_PositionFollowsRotation ==
  [][\A dx, dy \in -1..1 :
       (isDragging /\ activePanel.layer = "front" /\ PointerMove(dx, dy))
         => LET i == activePanel.index
            IN  mediaStates'[i].position =
                  [base      |-> [kind |-> "base", index |-> i, layer |-> "front"],
                   sinX      |-> mediaStates'[i].rotation.y,
                   sinY      |-> mediaStates'[i].rotation.x,
                   maxOffset |-> 3,
                   z         |-> -1]]_vars

\* The first item has been turned by 1 about its x axis only: its position is offset
\* along y from the base position of its front panel.
C15_Witness ==
  /\ gesture = "pressed" /\ activePanel = Panel(0, "front")
  /\ mediaStates[0].rotation = [x |-> 1, y |-> 0]
  /\ mediaStates[0].position.sinY = 1 /\ mediaStates[0].position.sinX = 0
  /\ mediaStates[0].position.base = BasePosition(Panel(0, "front"))

\* C16 (back-layer permutation): pentagonOrder = [2, 0, 1, 3, 4] is a bijection over
\* the indices 0..4, so that backLayerStates and backLayerTextContents hold every
\* front item's state and text exactly once: each item i is shown by exactly one back
\* slot j, and that slot holds item i's state and item i's text.
C16_PentagonOrderBijection ==
  /\ Len(pentagonOrder) = N
  /\ \A j \in Items : pentagonOrder[j + 1] \in Items
  /\ \A i \in Items :
        /\ Cardinality({j \in Items : pentagonOrder[j + 1] = i}) = 1
        /\ Cardinality({j \in Items : backLayerTextContents[j] = backTextContents[i]}) = 1
        /\ \E j \in Items : /\ pentagonOrder[j + 1] = i
                             /\ backLayerStates[j] = mediaStates[i]
                             /\ backLayerTextContents[j] = backTextContents[i]

\* Item 0 alone has been turned: the back layer holds its state in slot 1 and in no
\* other slot.
C16_Witness ==
  /\ mediaStates[0].rotation = [x |-> 1, y |-> 1]
  /\ \A i \in Items \ {0} : mediaStates[i] = InitialMediaState
  /\ {j \in Items : backLayerStates[j] = mediaStates[0]} = {1}

\* C17 (animation convergence): with a fixed target and no further input, every frame
\* rendered while animating is true moves the camera to camera + 0.1*(target - camera)
\* (each coordinate, to the resolution of the arithmetic), so that the distance to
\* the target strictly decreases while it is 0.01 or more and never grows; animating
\* becomes false at the first frame whose resulting distance is below 0.01 and then
\* stays false, with the camera at rest, until the next focus change or double-click;
\* from (0, 0, 5) with target (2, 3, 5), as from every start, that frame comes.
C17_AnimationConverges ==
  /\ [][FrameStep
          => IF animating
               THEN LET c == CameraPosition
                        t == TargetVector
                        d == CameraPosition'
                    IN  /\ TargetVector' = t
                        /\ \A a \in {"x", "y", "z"} :
                              Abs(10 * (d[a] - c[a]) - (t[a] - c[a])) < 10
                        /\ DistanceSq(d, t) <= DistanceSq(c, t)
                        /\ DistanceSq(c, t) >= (Unit \div 100) * (Unit \div 100)
                              => DistanceSq(d, t) < DistanceSq(c, t)
                        /\ animating' = ~(DistanceSq(d, t) < (Unit \div 100) * (Unit \div 100))
               ELSE ~animating' /\ cameraXY' = cameraXY /\ cameraZ' = cameraZ]_vars
  /\ [][(~animating /\ animating') => (DoubleClick \/ focusedItem' # focusedItem)]_vars
  /\ (animating ~> ~animating)

\* The camera has come from (0, 0, 5) to within 0.01 of the target (2, 3, 5) and rests.
C17_Witness ==
  /\ ~animating
  /\ targetPosition = Point(2 * Unit, 3 * Unit) /\ targetZoom = 5
  /\ cameraXY # Origin
  /\ DistanceSq(CameraPosition, TargetVector) < EpsilonSq

\* C18 (wheel zoom acts on the camera only): while wasRotating is false a wheel event
\* changes camera z by +0.1 (deltaY > 0) or -0.1 (otherwise), clamped to
\* [frontLayer zoom - 0.5, overview zoom + 1] of the viewport's orientation
\* (landscape [3.5, 8], portrait [1.5, 7]), and leaves targetZoom, targetPosition,
\* animating and the focus state unchanged.
C18_WheelZoomsCameraOnly ==
  [][\A deltaYPositive \in BOOLEAN :
       (~wasRotating /\ Wheel(deltaYPositive))
         => LET lo == IF viewportLandscape THEN 35 * (Unit \div 10) ELSE 15 * (Unit \div 10)
                hi == IF viewportLandscape THEN 80 * (Unit \div 10) ELSE 70 * (Unit \div 10)
                z  == cameraZ + (IF deltaYPositive THEN Unit \div 10 ELSE -(Unit \div 10))
            IN  /\ cameraZ' = Max(lo, Min(hi, z))
                /\ UNCHANGED <<targetZoom, targetPosition, animating, focusedItem>>]_vars

\* C19 (timers never stacked): for each timer ref (Scene's interactionResetTimer, each
\* strip's interactionTimer) at most one timeout is pending at any time; every change
\* of wasRotatingState cancels what was pending before the new timeout is scheduled
\* (300 ms for Scene, 1000 ms for a strip, none when the state becomes false); no
\* cancelled timeout ever fires: a timeout that fires is the one its ref holds, set
\* by the change that made wasRotatingState true; and Scene's reset ends that
\* rotation episode, so that two resets never fire for one episode.
C19_TimersNeverStacked ==
  /\ [](\A t \in TimerIds :
          (IF Remaining(t) = NoTimer THEN 0 ELSE 1) + Cardinality(staleTimeouts[t]) <= 1)
  /\ [][(wasRotatingState' # wasRotatingState)
          => /\ interactionResetTimer' = (IF wasRotatingState' THEN 300 ELSE NoTimer)
             /\ \A s \in Strips :
                   interactionTimer'[s] = (IF wasRotatingState' THEN 1000 ELSE NoTimer)
             /\ \A t \in TimerIds : staleTimeouts'[t] = {}]_vars
  /\ [][\A t \in TimerIds :
          TimerFire(t) => /\ wasRotatingState
                          /\ Remaining(t) = 0
                          /\ t = "scene" => ~wasRotatingState' /\ Live(t)' = {}]_vars

\* A press on the background found the cooldown of a rotation running (Scene's and the
\* strips' timeouts pending); released after 199 ms as a click, it has cancelled them
\* 101 ms before Scene's was due, and nothing is pending.
C19_Witness ==
  /\ gesture = "released"
  /\ initialHit = NoPanel
  /\ gestureStart.cooldown
  /\ elapsed = 199
  /\ ~wasRotatingState
  /\ \A t \in TimerIds : Live(t) = {}

\* C20 (unmount cleanup): after Scene and both strips unmount, from any reachable
\* state, none of the pointerdown, pointermove, pointerup, click, dblclick, wheel and
\* resize listeners remains registered and no timeout remains pending; so it stays,
\* and no handler writes the state any more.
C20_UnmountCleansUp ==
  /\ [][Unmount
          => /\ \A c \in {"scene", "image", "text"} :
                  \A type \in {"pointerdown", "pointermove", "pointerup", "click",
                                "dblclick", "wheel", "resize"} :
                    [component |-> c, type |-> type] \notin listeners'
             /\ \A t \in TimerIds : Live(t)' = {}]_vars
  /\ [][listeners = {}
          => /\ listeners' = {}
             /\ \A t \in TimerIds : Live(t)' = {}
             /\ UNCHANGED <<focusVars, isDragging, dragDistance, activePanel,
                            wasRotatingState, wasRotating, allowInteraction, isMobile,
                            mediaStates, sceneRotation, cameraZ, cameraXY,
                            interactionEnabled>>]_vars

\* Scene and the strips have unmounted in the cooldown of a rotation (the scene
\* turned, the pointer released, the strips still disabled): the timeouts that were
\* pending are cleared.
C20_Witness ==
  /\ listeners = {}
  /\ wasRotatingState
  /\ gesture = "released"
  /\ sceneRotation.y = 6
  /\ \A s \in Strips : ~interactionEnabled[s]
  /\ \A t \in TimerIds : Live(t) = {}

\* C21. The two strips share one focus state and one animation target, both owned
\* by Scene.  A click on a panel of either layer toggles or moves the focus that
\* the previous event left, whichever layer set it; a press that misses the image
\* strip's panels clears a focus set through either layer; and the camera moves
\* only in the one per-frame interpolation, to the shared target.
C21_SharedFocusAndTarget ==
  [][/\ Click(TRUE) =>
         <<focusedItem', targetPosition', targetZoom', animating'>> =
           IF focusedItem = initialHit
           THEN <<NoPanel, Origin, getZoomLevel("overview", viewportLandscape), TRUE>>
           ELSE <<initialHit, BasePosition(initialHit),
                  getZoomLevel(IF initialHit.layer = "back" THEN "backLayer"
                                                              ELSE "frontLayer",
                               viewportLandscape), TRUE>>
     /\ \A p \in FocusPanels :
          (/\ PointerDown(p, FALSE)
           /\ p.layer # "front"
           /\ interactionEnabled["image"]
           /\ focusedItem # NoPanel)
            => /\ focusedItem' = NoPanel
               /\ targetPosition' = Origin
               /\ animating'
     /\ <<cameraZ, cameraXY>>' # <<cameraZ, cameraXY>> =>
          /\ Frame
          /\ cameraXY' = targetPosition
          /\ cameraZ' = Unit * targetZoom]_vars

\* The camera has arrived at a back panel focused through the text strip, and a
\* click on a front panel has then moved the shared focus and target to it.
C21_Witness ==
  /\ focusedItem = Panel(0, "front")
  /\ targetPosition = BasePosition(Panel(0, "front"))
  /\ cameraXY = BasePosition(Panel(1, "back"))
  /\ animating

\* C22. Every pointer-down resets the gesture state: isDragging is true, wasRotating
\* false, dragDistance (0, 0), lastPosition the pointer's position, the drag's start
\* time now, activePanel the panel hit or null.  So whatever came before, each move
\* of the gesture adds exactly its own displacement to the distance, the distance
\* changes in no other step, and the duration counts from the pointer-down.
C22_PointerDownResetsGesture ==
  [][/\ \A p \in PointerPanels :
          PointerDown(p, FALSE) =>
            /\ isDragging'
            /\ ~wasRotating'
            /\ dragDistance' = [x |-> 0, y |-> 0]
            /\ lastPosition' = AtPointer
            /\ elapsed' = 0
            /\ activePanel' = p
     /\ \A d \in PointerDeltas :
          (isDragging /\ PointerMove(d[1], d[2])) =>
            dragDistance' = [x |-> dragDistance.x + Abs(d[1]),
                             y |-> dragDistance.y + Abs(d[2])]
     /\ dragDistance' # dragDistance => gesture' = "pressed"
     /\ (gesture = "pressed" /\ gesture' = "pressed") => elapsed' >= elapsed]_vars

\* A second gesture, begun while the cooldown of an earlier scene rotation was
\* running, has made its first move 150 ms after its pointer-down.
C22_Witness ==
  /\ gesture = "pressed"
  /\ gestureStart.cooldown
  /\ sceneRotation.y = 4
  /\ ~wasRotating
  /\ dragDistance = [x |-> 0, y |-> 4]
  /\ elapsed = 150

\* C28. The panel chosen at pointer-down stays the active one until the pointer-up
\* of the gesture, every pointer-up ends the drag and clears the active panel, and
\* a pointer-move outside a gesture changes no rotation, distance or flag.
C28_NoStuckOrRetargetedDrag ==
  [][/\ (gesture = "pressed" /\ gesture' = "pressed") =>
          activePanel' = activePanel /\ activePanel = initialHit
     /\ PointerUp => ~isDragging' /\ activePanel' = NoPanel
     /\ isDragging' = (gesture' = "pressed")
     /\ \A d \in PointerDeltas :
          (~isDragging /\ PointerMove(d[1], d[2])) =>
            UNCHANGED <<mediaStates, sceneRotation, dragDistance, isDragging,
                        wasRotating, wasRotatingState, allowInteraction, activePanel,
                        interactionEnabled>>]_vars

\* After a scene rotation and a rotation of the first front item, the pointer has
\* moved with no button down.
C28_Witness ==
  /\ gesture = "released"
  /\ lastPosition # AtPointer
  /\ sceneRotation.y # 0
  /\ mediaStates[0].rotation.y # 0
  /\ ~isDragging
  /\ activePanel = NoPanel

\* C23. Front-layer landscape layout: with viewport.width > viewport.height every
\* one of the n items has width baseWidth = (availableSpace - (n - 1) * spacing) / n
\* and centre x_i = (i - n/2 + 0.5) * (baseWidth + spacing); the centres increase
\* strictly and are symmetric about 0, the strip spans exactly availableSpace from
\* the left edge of item 0 to the right edge of item n - 1, and the top edge of
\* every item is at maxHeight / 2.
C23_LandscapeLayout ==
  viewport.width > viewport.height =>
    LET n == Len(images)
        spacing == Spacing(isMobile, TRUE)
        availableSpace == RMul(RInt(viewport.width),
                               IF isMobile THEN R(19, 20) ELSE R(9, 10))
        baseWidth == RDiv(RSub(availableSpace, RMul(RInt(n - 1), spacing)), RInt(n))
        half == RDiv(baseWidth, RInt(2))
        meshes == ImageMeshes
        x(i) == meshes[i].position.x
        top(i) == RAdd(meshes[i].position.y, RDiv(meshes[i].height, RInt(2)))
        maxHeight == RMul(RInt(2), top(0))
    IN  /\ DOMAIN meshes = 0 .. n - 1
        /\ \A i \in 0 .. n - 1 :
             /\ meshes[i].width = baseWidth
             /\ meshes[i].height = RDiv(baseWidth, images[i + 1])
             /\ x(i) = RMul(R(2 * i - n + 1, 2), RAdd(baseWidth, spacing))
             /\ x(i) = RSub(RZero, x(n - 1 - i))
             /\ i < n - 1 => RLess(x(i), x(i + 1))
             /\ top(i) = top(0)
             /\ ~RLess(maxHeight, meshes[i].height)
        /\ \E j \in 0 .. n - 1 : maxHeight = meshes[j].height
        /\ RSub(RAdd(x(n - 1), half), RSub(x(0), half)) = availableSpace

\* Three images of different aspect ratios laid out in the 16 by 9 viewport, the
\* first one rotated and focused.
C23_Witness ==
  /\ viewport = [width |-> 16, height |-> 9]
  /\ Len(images) = 3
  /\ images[1] # images[2] /\ images[2] # images[3] /\ images[1] # images[3]
  /\ focusedItem = Panel(0, "front")
  /\ mediaStates[0].rotation.y # 0

\* C24. Front-layer portrait layout: with viewport.width <= viewport.height every
\* item is at x = 0; with totalHeight the sum of the heights plus (n - 1) * spacing,
\* the top edge of the first item is at totalHeight / 2, the gap between the bottom
\* of item i and the top of item i + 1 is exactly spacing, and the bottom edge of
\* the last item is at -totalHeight / 2.
C24_PortraitLayout ==
  viewport.width <= viewport.height =>
    LET n == Len(images)
        spacing == Spacing(isMobile, FALSE)
        meshes == ImageMeshes
        heights == [j \in 1 .. n |-> meshes[j - 1].height]
        totalHeight == RAdd(RSum(heights, n), RMul(RInt(n - 1), spacing))
        top(i) == RAdd(meshes[i].position.y, RDiv(meshes[i].height, RInt(2)))
        bottom(i) == RSub(meshes[i].position.y, RDiv(meshes[i].height, RInt(2)))
    IN  /\ DOMAIN meshes = 0 .. n - 1
        /\ \A i \in 0 .. n - 1 :
             /\ meshes[i].position.x = RZero
             /\ meshes[i].height =
                  RDiv(RDiv(RSub(RMul(RInt(viewport.height), R(7, 10)),
                                 RMul(RInt(n - 1), spacing)), RInt(n)),
                       images[i + 1])
             /\ i < n - 1 => RSub(bottom(i), top(i + 1)) = spacing
        /\ top(0) = RDiv(totalHeight, RInt(2))
        /\ bottom(n - 1) = RSub(RZero, RDiv(totalHeight, RInt(2)))

\* Three images of different aspect ratios laid out in the 9 by 16 viewport, the
\* first one rotated and focused.
C24_Witness ==
  /\ viewport = [width |-> 9, height |-> 16]
  /\ Len(images) = 3
  /\ images[1] # images[2] /\ images[2] # images[3] /\ images[1] # images[3]
  /\ focusedItem = Panel(0, "front")
  /\ mediaStates[0].rotation.y # 0

\* C25. Layout determinism: for fixed aspect ratios, viewport size, isMobile flag and
\* layer, every layout pass returns the same positions, widths and heights: the
\* ones a pass returns with nothing focused and nothing rotated, whatever the
\* focus, the rotations, the gesture and the timers are.
C25_LayoutDeterminism ==
  /\ LayoutOf(ImageMeshes) =
       LayoutOf(ImageStripMeshes(images, viewport, isMobile, FALSE, 0, NoPanel,
                                 [i \in Items |-> InitialMediaState]))
  /\ LayoutOf(TextMeshes) =
       LayoutOf(TextStripMeshes(backLayerTextContents, viewport, isMobile, TRUE, -2,
                                NoPanel, [i \in Items |-> InitialMediaState]))

\* A layout pass with the first front item focused and rotated, the scene rotated
\* and the pointer down for 150 ms, in the square viewport of a mobile device.
C25_Witness ==
  /\ focusedItem = Panel(0, "front")
  /\ mediaStates[0].rotation.y # 0
  /\ sceneRotation.y # 0
  /\ gesture = "pressed"
  /\ elapsed = 150
  /\ isMobile
  /\ viewport = [width |-> 8, height |-> 8]
  /\ Len(images) = 2

\* C26. Axis wiring of the derived back position: its x-offset is maxOffset * sin of
\* the vertical angle (rotation.x, the one that accumulates deltaY) and its y-offset
\* maxOffset * sin of the horizontal angle (rotation.y, the one that accumulates
\* deltaX); so a drag with deltaY = 0 on a front panel changes only the y-component
\* of the item's derived position.
C26_AxisWiring ==
  [][\A d \in RotateDeltas :
       (isDragging /\ activePanel.layer = "front" /\ PointerMove(d[1], d[2])) =>
         LET i == activePanel.index
         IN  /\ mediaStates'[i].position.sinX = mediaStates'[i].rotation.x
             /\ mediaStates'[i].position.sinY = mediaStates'[i].rotation.y
             /\ d[2] = 0 =>
                  mediaStates'[i].position.sinX = mediaStates[i].position.sinX]_vars

\* C27. Permutation correlation in final.tsx and in perspective.tsx: back slot s
\* takes its rotation state from front item pentagonOrder[s], the front item whose
\* paired text slot s shows, so the rotation of front item f reaches exactly the one
\* back slot s with pentagonOrder[s] = f.
C27_PermutationCorrelation ==
  \A s \in Items :
    LET f == pentagonOrder[s + 1]
    IN  /\ backLayerStates[s] = mediaStates[f]
        /\ backLayerTextContents[s] = backTextContents[f]
        /\ TextMeshes[s].letterSpacing = TextParameter(-10, 15, mediaStates[f].rotation.x)
        /\ TextMeshes[s].lineHeight = TextParameter(1, 20, mediaStates[f].rotation.y)
        /\ frontRotation(mediaStates, s) = mediaStates[f].rotation

\* C29. Interaction is only temporarily suppressed: once no further pointer event
\* occurs, Scene.allowInteraction and every strip's interactionEnabled are true
\* again after the pending timers have fired, and stay true; no state leaves a flag
\* false with no pending timer to set it back.
C29_InteractionResumes ==
  <>[][~PointerEvent]_vars =>
    <>[](allowInteraction /\ \A s \in Strips : interactionEnabled[s])

\* C30. Animation terminates in the text-png.tsx variant: after any sequence of
\* panel clicks and background pointer-downs followed by no further input, each
\* strip's animating flag eventually becomes false and stays false.
C30_StripAnimationsTerminate ==
  <>[][~TextPngInput]_vars =>
    <>[](\A s \in Strips : ~textPng.strip[s].animating)

(* ------------------------------- C31 ----------------------------------- *)
\* C31: a gesture that handlePointerUp classifies as a click never rotated the scene.
\* Within a gesture dragDistance and the elapsed time only grow, so the gesture can
\* end as a click only while IsClick still holds of them: no pointer-move that turns
\* the scene may leave the gesture one that a pointer-up would classify as a click.
C31_ClickNeverRotated ==
  [][(gesture = "pressed" /\ gesture' = "pressed" /\ sceneRotation' # sceneRotation)
       => ~IsClick(elapsed', dragDistance', isMobile')]_vars

(* ------------------------------- C32 ----------------------------------- *)
\* C32: a scene-rotation gesture does not change focus.  At the pointer-up of a
\* gesture that went down on no panel, whose moves turned the scene (its accumulated
\* distance is past the rotation threshold) and that is not classified a click,
\* focusedItem, targetPosition and targetZoom are what the gesture's pointer-down
\* found.
C32_RotationKeepsFocus ==
  [][(/\ gesture = "pressed" /\ gesture' = "released"
      /\ activePanel = NoPanel
      /\ RotatesScene(dragDistance, isMobile)
      /\ ~IsClick(elapsed, dragDistance, isMobile))
       => /\ focusedItem' = gestureStart.focusedItem
          /\ targetPosition' = gestureStart.targetPosition
          /\ targetZoom' = gestureStart.targetZoom]_vars

(* ------------------------------- C35 ----------------------------------- *)
\* C35: item rotation angles change only through a pointer-move on the active front
\* panel.  Every step that changes the rotation angles of some item is a pointer-move
\* of a drag that went down on a front panel; it changes the angles of that panel's
\* item only and leaves the scene's rotation alone.  So a panel click, a focus change,
\* a background reset, a double-click, a wheel event, a scene rotation and the timers
\* leave all five items' angles as they are.
C35_ItemRotationOnlyByPanelDrag ==
  [][(\E i \in Items : mediaStates'[i].rotation # mediaStates[i].rotation)
       => /\ isDragging /\ gesture = "pressed"
          /\ activePanel.layer = "front"
          /\ dragDistance' # dragDistance
          /\ \A i \in Items : i # activePanel.index
                 => mediaStates'[i].rotation = mediaStates[i].rotation
          /\ sceneRotation' = sceneRotation]_vars

\* Item 0, turned by a drag on its panel, has kept its angles through the click that
\* focused it, a wheel event and a drag of the background that turned the scene.
C35_Witness ==
  /\ mediaStates[0].rotation.y # 0
  /\ focusedItem = Panel(0, "front")
  /\ sceneRotation.y # 0
  /\ \A z \in ZoomPresets : cameraZ # z

(* ------------------------------- C34 ----------------------------------- *)
\* C34: the strips' own 1000 ms re-enable timeout never fires.  A strip's timeout is
\* pending only while Scene's 300 ms reset is pending too, and then it has the
\* difference of the two delays more to run, so it is never due; and a strip is
\* disabled only while wasRotatingState is true and Scene's reset is pending, that
\* is for no longer than Scene's 300 ms after wasRotatingState became true.
C34_StripTimeoutNeverFires ==
  \A s \in Strips :
    /\ 0 \notin Live(s)
    /\ interactionTimer[s] # NoTimer
         => /\ interactionResetTimer # NoTimer
            /\ interactionTimer[s] = interactionResetTimer + (StripDelayMs - CooldownMs)
    /\ ~interactionEnabled[s]
         => /\ wasRotatingState
            /\ interactionResetTimer # NoTimer
            /\ interactionResetTimer <= CooldownMs

\* Scene's reset is due while the pointer is still down on the background: both
\* strips are disabled and their timeouts have 700 ms left.
C34_Witness ==
  /\ interactionResetTimer = 0
  /\ gesture = "pressed" /\ activePanel = NoPanel
  /\ \A s \in Strips :
       ~interactionEnabled[s] /\ interactionTimer[s] = StripDelayMs - CooldownMs

(* ------------------------------- C33 ----------------------------------- *)
\* C33: the wasRotating ref and the wasRotatingState state agree once a handler or a
\* timer callback has run to completion, so at every rendered frame.  (Every state of
\* the model is one between two handlers.  Cubez.tsx's Scene has the same handlers
\* with the desktop thresholds, so a behaviour with isMobile false is one of Cubez.tsx
\* as well.)
C33_RefAndStateAgree ==
  wasRotating = wasRotatingState

(* ------------------------------- C36 ----------------------------------- *)
\* C36: in part_001's Scene the 100 ms timeout set at the pointer-up of a
\* scene-rotating gesture only ends that gesture's rotation state.  No step sets
\* wasRotating to false while a gesture that is rotating the scene is still in
\* progress, and at most one timeout is pending at any time.
C36_TimeoutEndsOwnGestureOnly ==
  [][/\ (part001.isDragging /\ part001.wasRotating /\ part001'.isDragging)
          => part001'.wasRotating
     /\ Len(part001'.timeouts) <= 1]_vars

(* ------------------------------- C37 ----------------------------------- *)
\* C37: interval cleanup in P5Sketch.  At most five generation intervals are active
\* at any time, and once a component has unmounted none of its intervals is active
\* and its p5 instance is not live, whenever its imports resolve and p5 calls setup.
C37_IntervalsCleanedUp ==
  /\ Cardinality(sketch.active) <= 5
  /\ \A k \in 1 .. MaxMounts :
       sketch.component[k].stage = "unmounted"
         => /\ sketch.component[k].p5Instance # "live"
            /\ \A div \in SketchDivs : <<k, div>> \notin sketch.active

====
